---- MODULE Spec2Model ----
(***************************************************************************)
(* The C# backend of wit-bindgen (crates/csharp/src/lib.rs): the           *)
(* per-function state machine FunctionBindgen that turns an ABI            *)
(* instruction stream into C# statements, the module-wide accumulators of  *)
(* CSharp, and the run-time meaning of the statements it emits.            *)
(*                                                                         *)
(* Emitted text is kept as structure: a statement is a record with a kind  *)
(* k, a block body is a sequence of statements, operands and names are     *)
(* strings built the way the format! calls build them.                     *)
(***************************************************************************)
EXTENDS Integers, Sequences, FiniteSets, TLC

VARIABLES
    gen,        \* CSharp: the module-wide accumulators
    direction,  \* InterfaceGenerator.direction of the function being translated
    fb,         \* FunctionBindgen: the per-function state
    abi,        \* the instruction stream builder: program, position, operand stack,
                \* with the functions handed over so far and whether one panicked
    world_src,  \* the output: per function, and what CSharp::finish emitted
    mode,       \* "one": a single function; "world": several, then finish
    requests,   \* history: the return_pointer requests made so far
    fl,         \* flags round trip: the value under translation
    hr,         \* handle run: the run-time state of an emitted handle sequence
    asy,        \* asyncify: the function rewritten before generation, if any
    fin,        \* CSharp::finish: the interface fragments and the files written
    aw,         \* asyncify: the world rewritten, its imports and exports
    mac         \* generate!: the options parsed so far into a Config

vars == <<gen, direction, fb, abi, world_src, mode, requests, fl, hr, asy, fin, aw, mac>>

(***************************************************************************)
(* Bounds of the model.                                                    *)
(***************************************************************************)
MaxCases == 3       \* cases of the largest variant translated
MaxFuncs == 2       \* functions translated before finish in the world runs
MaxFlags == 64      \* members of the largest flags type

(***************************************************************************)
(* Small helpers.                                                          *)
(***************************************************************************)
Last(s) == s[Len(s)]
Front(s) == SubSeq(s, 1, Len(s) - 1)
Max2(a, b) == IF a >= b THEN a ELSE b

RECURSIVE Concat(_)
Concat(ss) == IF ss = <<>> THEN <<>> ELSE Head(ss) \o Concat(Tail(ss))

RECURSIVE MaxOf(_)
MaxOf(S) == IF S = {} THEN 0
            ELSE LET x == CHOOSE y \in S : TRUE IN Max2(x, MaxOf(S \ {x}))

(***************************************************************************)
(* Resolved types (wit_parser::Type / TypeDefKind), as far as the backend  *)
(* distinguishes them.  NoType is the absent payload of a case.            *)
(***************************************************************************)
NoType == [k |-> "none"]
S32 == [k |-> "s32"]
S64 == [k |-> "s64"]
Str == [k |-> "string"]
Own(r) == [k |-> "own", r |-> r]
Borrow(r) == [k |-> "borrow", r |-> r]
EnumT(n) == [k |-> "enum", n |-> n]
ListC == [k |-> "listc"]
ListT(t) == [k |-> "list", t |-> t]
OptionT(t) == [k |-> "option", t |-> t]
ResultT(ok, err) == [k |-> "result", ok |-> ok, err |-> err]
VariantT(cases) == [k |-> "variant", cases |-> cases]
TupleT(types) == [k |-> "tuple", types |-> types]

\* The cases of a tagged type, in declaration order: <<name, payload>>.
CasesOf(t) ==
    CASE t.k = "option" -> << <<"none", NoType>>, <<"some", t.t>> >>
      [] t.k = "result" -> << <<"ok", t.ok>>, <<"err", t.err>> >>
      [] t.k = "variant" -> [i \in 1..Len(t.cases) |->
                                <<"c" \o ToString(i - 1), t.cases[i]>>]

\* abi::push_flat: the number of flat core values of a type.
RECURSIVE Flat(_)
RECURSIVE SumFlat(_)
Flat(t) ==
    CASE t.k = "none" -> 0
      [] t.k = "tuple" -> SumFlat(t.types)
      [] t.k \in {"s32", "s64", "own", "borrow", "enum"} -> 1
      [] t.k \in {"string", "listc", "list"} -> 2
      [] t.k \in {"option", "result", "variant"} ->
            LET cs == CasesOf(t) IN
            1 + MaxOf({Flat(cs[i][2]) : i \in 1..Len(cs)})

\* SizeAlign::size of a list element, in bytes.
ElemSize(t) == 4 * Flat(t)

(***************************************************************************)
(* The instruction stream builder (wit_bindgen_core::abi).  An entry of    *)
(* the stream is one call into the backend: inst names the Bindgen method  *)
(* or the Instruction, nops is the number of operands popped for it, pre   *)
(* and post are the builder's own moves on its operand stack around the    *)
(* call.                                                                   *)
(***************************************************************************)
\* A move of the builder on its stack: save sets the top n operands aside,
\* load pushes the first n set aside again, pick pushes the n-th of them,
\* unsave forgets them, swap exchanges the top two, dropunder removes the
\* one under the top.
Op(op, n) == [op |-> op, n |-> n]
Ins(inst, nops) == [inst |-> inst, nops |-> nops, pre |-> <<>>, post |-> <<>>]
With(i, extra) == extra @@ i
WithPre(i, p) == [i EXCEPT !.pre = p \o @]
WithPost(i, p) == [i EXCEPT !.post = @ \o p]
PreFirst(s, p) == IF s = <<>> THEN s ELSE <<WithPre(s[1], p)>> \o Tail(s)
PostLast(s, p) == IF s = <<>> THEN s ELSE Front(s) \o <<WithPost(Last(s), p)>>

\* list_realloc: None when lowering the arguments of an import.
Realloc(dir) == IF dir = "Import" THEN "none" ELSE "cabi_realloc"

RECURSIVE LowerStream(_, _)
RECURSIVE LiftStream(_, _)
RECURSIVE WriteStream(_, _, _)
RECURSIVE ReadStream(_, _, _)

IsTagged(t) == t.k \in {"option", "result", "variant"}

CaseInfo(t) == [i \in 1..Len(CasesOf(t)) |->
                   [name |-> CasesOf(t)[i][1], ty |-> CasesOf(t)[i][2]]]

\* The instruction that lowers or lifts a whole tagged value.
TaggedIns(t, suffix, nl) ==
    CASE t.k = "option" ->
            With(Ins("Option" \o suffix, 1), [nl |-> nl, payload |-> t.t, ty |-> t])
      [] t.k = "result" ->
            With(Ins("Result" \o suffix, 1), [nl |-> nl, cases |-> CaseInfo(t), ty |-> t])
      [] t.k = "variant" ->
            With(Ins("Variant" \o suffix, 1), [nl |-> nl, cases |-> CaseInfo(t), ty |-> t])

\* lower_variant_arms: one block per case, each yielding nl operands.
LowerArms(t, dir) ==
    LET cs == CasesOf(t)
        nl == Flat(t)
        arm(i) ==
            LET ty == cs[i][2]
                pad == nl - 1 - Flat(ty)
            IN  << Ins("PushBlock", 0),
                   Ins("VariantPayloadName", 0),
                   WithPost(With(Ins("I32Const", 0), [val |-> i - 1]),
                            IF ty = NoType THEN <<Op("dropunder", 0)>> ELSE <<Op("swap", 0)>>) >>
                \o LowerStream(ty, dir)
                \o (IF pad > 0 THEN <<With(Ins("ConstZero", 0), [n |-> pad])>>
                    ELSE <<>>)
                \o << With(Ins("FinishBlock", nl), [size |-> nl]) >>
    IN  Concat([i \in 1..Len(cs) |-> arm(i)])

\* lift_variant_arms: the payload's flat values are set aside, each case
\* block lifts from the ones it needs and yields one operand or none.
LiftArms(t, dir) ==
    LET cs == CasesOf(t)
        arm(i) ==
            LET ty == cs[i][2]
            IN  << Ins("PushBlock", 0) >>
                \o PreFirst(LiftStream(ty, dir), <<Op("load", Flat(ty))>>)
                \o << With(Ins("FinishBlock", IF ty = NoType THEN 0 ELSE 1),
                           [size |-> IF ty = NoType THEN 0 ELSE 1]) >>
    IN  PreFirst(Concat([i \in 1..Len(cs) |-> arm(i)]), <<Op("save", Flat(t) - 1)>>)

LowerStream(t, dir) ==
    CASE t.k = "none" -> <<>>
      [] t.k = "s32" -> << Ins("I32FromS32", 1) >>
      [] t.k = "s64" -> << Ins("I64FromS64", 1) >>
      [] t.k = "string" -> << With(Ins("StringLower", 1), [realloc |-> Realloc(dir)]) >>
      [] t.k \in {"own", "borrow"} ->
            << With(Ins("HandleLower", 1), [own |-> t.k = "own", r |-> t.r]) >>
      [] t.k = "enum" -> << With(Ins("EnumLower", 1), [n |-> t.n]) >>
      [] t.k = "listc" -> << With(Ins("ListCanonLower", 1), [realloc |-> Realloc(dir)]) >>
      [] t.k = "list" ->
            << Ins("PushBlock", 0),
               Ins("IterElem", 0),
               WithPost(Ins("IterBasePointer", 0), <<Op("save", 1)>>) >>
            \o WriteStream(t.t, dir, 0)
            \o << WithPost(With(Ins("FinishBlock", 0), [size |-> 0]), <<Op("unsave", 0)>>),
                  With(Ins("ListLower", 1),
                       [realloc |-> Realloc(dir), size |-> ElemSize(t.t), ty |-> t.t]) >>
      [] IsTagged(t) -> LowerArms(t, dir) \o << TaggedIns(t, "Lower", Flat(t)) >>
      [] t.k = "tuple" ->
            \* the fields are set aside and lowered one after the other
            LET n == Len(t.types) IN
            PostLast(
                << WithPost(With(Ins("TupleLower", 1), [n |-> n]), <<Op("save", n)>>) >>
                \o Concat([j \in 1..n |->
                        PreFirst(LowerStream(t.types[j], dir), <<Op("pick", j)>>)]),
                <<Op("unsave", 0)>>)

LiftStream(t, dir) ==
    CASE t.k = "none" -> <<>>
      [] t.k = "s32" -> << Ins("S32FromI32", 1) >>
      [] t.k = "s64" -> << Ins("S64FromI64", 1) >>
      [] t.k = "string" -> << Ins("StringLift", 2) >>
      [] t.k \in {"own", "borrow"} ->
            << With(Ins("HandleLift", 1), [own |-> t.k = "own", r |-> t.r]) >>
      [] t.k = "enum" -> << With(Ins("EnumLift", 1), [n |-> t.n]) >>
      [] t.k = "listc" -> << Ins("ListCanonLift", 2) >>
      [] t.k = "list" ->
            << Ins("PushBlock", 0),
               WithPost(Ins("IterBasePointer", 0), <<Op("save", 1)>>) >>
            \o ReadStream(t.t, dir, 0)
            \o << WithPost(With(Ins("FinishBlock", 1), [size |-> 1]), <<Op("unsave", 0)>>),
                  With(Ins("ListLift", 2), [size |-> ElemSize(t.t), ty |-> t.t]) >>
      [] IsTagged(t) ->
            LiftArms(t, dir) \o << WithPre(TaggedIns(t, "Lift", 0), <<Op("unsave", 0)>>) >>
      [] t.k = "tuple" ->
            \* the flat values are set aside, each field lifts from its own
            LET n == Len(t.types)
                first(j) == SumFlat(SubSeq(t.types, 1, j - 1))
                picks(j) == [i \in 1..Flat(t.types[j]) |-> Op("pick", first(j) + i)]
            IN  PreFirst(
                    Concat([j \in 1..n |->
                        PreFirst(LiftStream(t.types[j], dir), picks(j))]),
                    <<Op("save", Flat(t))>>)
                \o << WithPost(With(Ins("TupleLift", n), [n |-> n]),
                               <<Op("unsave", 0)>>) >>

\* write_to_memory: lower the value on the stack and store it at the saved
\* address plus off.  A tagged value is written case by case
\* (write_variant_arms_to_memory): its blocks yield nothing and the final
\* lowering instruction has no flat results.
WriteStream(t, dir, off) ==
    IF IsTagged(t)
    THEN LET cs == CasesOf(t)
             arm(i) ==
                << Ins("PushBlock", 0),
                   Ins("VariantPayloadName", 0),
                   With(Ins("I32Const", 0), [val |-> i - 1]),
                   WithPre(With(Ins("I32Store8", 2), [offset |-> off]),
                           <<Op("load", 1)>>) >>
                \o WriteStream(cs[i][2], dir, off + 4)
                \o << WithPre(With(Ins("FinishBlock", 0), [size |-> 0]),
                              IF cs[i][2] = NoType THEN <<Op("drop", 0)>> ELSE <<>>) >>
         IN  Concat([i \in 1..Len(cs) |-> arm(i)]) \o << TaggedIns(t, "Lower", 0) >>
    ELSE IF t = NoType THEN <<>>
    ELSE LowerStream(t, dir) \o
         (IF Flat(t) = 2
          THEN << WithPre(With(Ins("LengthStore", 2), [offset |-> off + 4]),
                          <<Op("load", 1)>>),
                  WithPre(With(Ins("PointerStore", 2), [offset |-> off]),
                          <<Op("load", 1)>>) >>
          ELSE << WithPre(With(Ins("I32Store", 2), [offset |-> off]),
                          <<Op("load", 1)>>) >>)

\* read_from_memory: load from the saved address plus off and lift.  A
\* tagged value is read case by case (read_variant_arms_from_memory).
ReadStream(t, dir, off) ==
    IF IsTagged(t)
    THEN LET cs == CasesOf(t)
             arm(i) ==
                << Ins("PushBlock", 0) >>
                \o ReadStream(cs[i][2], dir, off + 4)
                \o << With(Ins("FinishBlock", IF cs[i][2] = NoType THEN 0 ELSE 1),
                           [size |-> IF cs[i][2] = NoType THEN 0 ELSE 1]) >>
         IN  << WithPre(With(Ins("I32Load8U", 1), [offset |-> off]), <<Op("load", 1)>>) >>
             \o Concat([i \in 1..Len(cs) |-> arm(i)])
             \o << TaggedIns(t, "Lift", 0) >>
    ELSE IF t = NoType THEN <<>>
    ELSE (IF Flat(t) = 2
          THEN << WithPre(With(Ins("PointerLoad", 1), [offset |-> off]),
                          <<Op("load", 1)>>),
                  WithPre(With(Ins("LengthLoad", 1), [offset |-> off + 4]),
                          <<Op("load", 1)>>) >>
          ELSE << WithPre(With(Ins("I32Load", 1), [offset |-> off]),
                          <<Op("load", 1)>>) >>)
         \o LiftStream(t, dir)

\* A function of the world: its direction, kind, parameter types and result
\* type (NoType for none).
Func(dir, kind, params, result) ==
    [dir |-> dir, kind |-> kind, params |-> params, result |-> result]

SumFlat(ts) == IF ts = <<>> THEN 0 ELSE Flat(Head(ts)) + SumFlat(Tail(ts))

\* Resolve::wasm_signature: a result of more than one flat value goes
\* through a return pointer.
RetPtr(func) == Flat(func.result) > 1
NResults(func) == IF func.result = NoType THEN 0 ELSE 1

\* abi::call: the whole stream of one function.
CallStream(func) ==
    LET np == Len(func.params)
        sz == ElemSize(func.result)
        al == IF func.result.k = "option" /\ func.result.t.k = "s64" THEN 8 ELSE 4
        rp == With(Ins("ReturnPointer", 0),
                   [size |-> IF al = 8 THEN 16 ELSE sz, align |-> al])
    IN  IF func.dir = "Import"
        THEN Concat([i \in 1..np |->
                        << With(Ins("GetArg", 0), [nth |-> i - 1]) >>
                        \o LowerStream(func.params[i], "Import")])
             \o (IF RetPtr(func) THEN << WithPost(rp, <<Op("copy", 1)>>) >> ELSE <<>>)
             \o << With(Ins("CallWasm", SumFlat(func.params)
                                        + (IF RetPtr(func) THEN 1 ELSE 0)),
                        [nres |-> IF RetPtr(func) THEN 0 ELSE Flat(func.result)]) >>
             \o (IF RetPtr(func)
                 THEN PostLast(ReadStream(func.result, "Import", 0), <<Op("unsave", 0)>>)
                 ELSE LiftStream(func.result, "Import"))
             \o << With(Ins("Return", NResults(func)), [nres |-> NResults(func)]) >>
        ELSE Concat([i \in 1..np |->
                        [j \in 1..Flat(func.params[i]) |->
                            With(Ins("GetArg", 0),
                                 [nth |-> SumFlat(SubSeq(func.params, 1, i - 1)) + j - 1])]
                        \o LiftStream(func.params[i], "Export")])
             \o << With(Ins("CallInterface", np), [nres |-> NResults(func)]) >>
             \o (IF RetPtr(func)
                 THEN << WithPost(rp, <<Op("save", 1)>>) >>
                      \o PostLast(WriteStream(func.result, "Export", 0),
                                  <<Op("load", 1), Op("unsave", 0)>>)
                 ELSE LowerStream(func.result, "Export"))
             \o << With(Ins("Return", NResults(func)), [nres |-> NResults(func)]) >>

\* The builder's moves on its operand stack.
ApplyOp(st, o) ==
    LET n == Len(st.stack) IN
    CASE o.op = "save" ->
            [stack |-> SubSeq(st.stack, 1, n - o.n),
             saved |-> Append(st.saved, SubSeq(st.stack, n - o.n + 1, n))]
      [] o.op = "copy" ->
            [stack |-> st.stack, saved |-> Append(st.saved, << st.stack[n] >>)]
      [] o.op = "pick" ->
            [stack |-> Append(st.stack, Last(st.saved)[o.n]), saved |-> st.saved]
      [] o.op = "load" ->
            [stack |-> st.stack \o SubSeq(Last(st.saved), 1, o.n), saved |-> st.saved]
      [] o.op = "unsave" -> [stack |-> st.stack, saved |-> Front(st.saved)]
      [] o.op = "swap" ->
            [stack |-> SubSeq(st.stack, 1, n - 2) \o << st.stack[n], st.stack[n - 1] >>,
             saved |-> st.saved]
      [] o.op = "dropunder" ->
            [stack |-> SubSeq(st.stack, 1, n - 2) \o << st.stack[n] >>,
             saved |-> st.saved]
      [] o.op = "drop" -> [stack |-> SubSeq(st.stack, 1, n - 1), saved |-> st.saved]

RECURSIVE ApplyOps(_, _)
ApplyOps(st, os) == IF os = <<>> THEN st ELSE ApplyOps(ApplyOp(st, Head(os)), Tail(os))

(***************************************************************************)
(* Emitted C#.  A statement is a record with a kind k; a body is a         *)
(* sequence of statements.                                                 *)
(***************************************************************************)
SDecl(name) == [k |-> "decl", name |-> name]
SVar(name, rhs) == [k |-> "var", name |-> name, rhs |-> rhs]
SAssign(lhs, rhs) == [k |-> "assign", lhs |-> lhs, rhs |-> rhs]
SFree(address) == [k |-> "free", name |-> address]
SRaw(text) == [k |-> "raw", text |-> text]
SStore(addr, offset, val) == [k |-> "store", addr |-> addr, offset |-> offset, val |-> val]
SReturn(vals) == [k |-> "return", vals |-> vals]

\* Ns::tmp: the name itself when free, else the name followed by the first
\* free number counting from 0; the result becomes defined.
RECURSIVE FirstFree(_, _, _)
FirstFree(defined, name, n) ==
    IF (name \o ToString(n)) \notin defined THEN n
    ELSE FirstFree(defined, name, n + 1)

tmp(defined, name) ==
    IF name \notin defined THEN name
    ELSE name \o ToString(FirstFree(defined, name, 0))

\* n calls of tmp(name) in a row: the names, in call order.
RECURSIVE tmps(_, _, _)
tmps(defined, name, n) ==
    IF n = 0 THEN <<>>
    ELSE LET x == tmp(defined, name)
         IN  <<x>> \o tmps(defined \cup {x}, name, n - 1)

Range(s) == {s[i] : i \in 1..Len(s)}

\* to_upper_camel_case of the case names used here.
UpperCamel(name) ==
    CASE name = "ok" -> "Ok" [] name = "err" -> "Err"
      [] name = "none" -> "None" [] name = "some" -> "Some"
      [] OTHER -> "C" \o SubSeq(name, 2, Len(name))

\* InterfaceGenerator::non_empty_type: the payload type, if the case has one.
non_empty_type(ty) == ty # NoType

RECURSIVE type_name_with_qualifier(_, _)
RECURSIVE type_names(_, _)

\* type_name_with_qualifier that remembers the arity of the last tuple only.
type_name_with_qualifier_last_arity(g, ty) ==
    CASE ty.k = "tuple" ->
            type_names([g EXCEPT !.tuple_counts = {Len(ty.types)}], ty.types)
      [] ty.k = "option" ->
            type_name_with_qualifier([g EXCEPT !.needs_option = TRUE], ty.t)
      [] ty.k = "result" ->
            type_name_with_qualifier(
                type_name_with_qualifier([g EXCEPT !.needs_result = TRUE], ty.ok),
                ty.err)
      [] ty.k = "list" -> type_name_with_qualifier(g, ty.t)
      [] OTHER -> g

\* The accumulator updates made by type_name_with_qualifier while it names ty.
type_name_with_qualifier(g, ty) ==
    CASE ty.k = "tuple" ->
            type_names([g EXCEPT !.tuple_counts = @ \cup {Len(ty.types)}], ty.types)
      [] ty.k = "option" ->
            type_name_with_qualifier([g EXCEPT !.needs_option = TRUE], ty.t)
      [] ty.k = "result" ->
            type_name_with_qualifier(
                type_name_with_qualifier([g EXCEPT !.needs_result = TRUE], ty.ok),
                ty.err)
      [] ty.k = "list" -> type_name_with_qualifier(g, ty.t)
      [] OTHER -> g

\* type_name_with_qualifier over several types, in order.
type_names(g, tys) ==
    IF tys = <<>> THEN g
    ELSE type_names(type_name_with_qualifier(g, Head(tys)), Tail(tys))

(***************************************************************************)
(* FunctionBindgen.  Every handler takes the context c = [f, g, dir] (the  *)
(* FunctionBindgen, the CSharp behind self.gen.gen, self.gen.direction),   *)
(* the instruction and its operands, and yields the new f and g and the    *)
(* results pushed.                                                         *)
(***************************************************************************)
Out(f, g, results) == [f |-> f, g |-> g, results |-> results, panic |-> FALSE]

\* A handler that panics (unreachable!, todo!, unimplemented!, a failed
\* assert!): nothing is pushed and the translation does not go on.
Panic(c) == [f |-> c.f, g |-> c.g, results |-> <<>>, panic |-> TRUE]

\* FunctionBindgen::new
FunctionBindgen_new(kind, params) ==
    [ kind |-> kind,
      params |-> params,
      src |-> <<>>,
      locals |-> {},
      block_storage |-> <<>>,
      blocks |-> <<>>,
      payloads |-> <<>>,
      needs_cleanup_list |-> FALSE,
      cleanup |-> <<>>,
      import_return_pointer_area_size |-> 0,
      import_return_pointer_area_align |-> 0,
      resource_drops |-> <<>> ]

\* lower_variant_arm that leaves the last slot unassigned.
lower_variant_arm_short(i, case, block, payload, lowered, op) ==
    [ label |-> i - 1,
      payload |-> IF non_empty_type(case.ty)
                  THEN << SVar(payload, op \o ".As" \o UpperCamel(case.name)) >>
                  ELSE <<>>,
      body |-> block.body,
      assignments |-> [j \in 1..(Len(lowered) - 1) |->
                          SAssign(lowered[j], block.results[j])],
      brk |-> TRUE ]

\* lower_variant_arm without the closing break: the arm falls through into
\* the next one.
lower_variant_arm_no_break(i, case, block, payload, lowered, op) ==
    [ label |-> i - 1,
      payload |-> IF non_empty_type(case.ty)
                  THEN << SVar(payload, op \o ".As" \o UpperCamel(case.name)) >>
                  ELSE <<>>,
      body |-> block.body,
      assignments |-> [j \in 1..(IF Len(lowered) <= Len(block.results)
                                 THEN Len(lowered) ELSE Len(block.results)) |->
                          SAssign(lowered[j], block.results[j])],
      brk |-> FALSE ]

\* The arm of lower_variant's switch for case i (counted from 1).
lower_variant_arm(i, case, block, payload, lowered, op) ==
    [ label |-> i - 1,
      payload |-> IF non_empty_type(case.ty)
                  THEN << SVar(payload, op \o ".As" \o UpperCamel(case.name)) >>
                  ELSE <<>>,
      body |-> block.body,
      assignments |-> [j \in 1..(IF Len(lowered) <= Len(block.results)
                                 THEN Len(lowered) ELSE Len(block.results)) |->
                          SAssign(lowered[j], block.results[j])],
      brk |-> TRUE ]

\* FunctionBindgen::lower_variant
lower_variant(c, cases, nl, op) ==
    LET f == c.f
        n == Len(cases)
        blocks == SubSeq(f.blocks, Len(f.blocks) - n + 1, Len(f.blocks))
        payloads == SubSeq(f.payloads, Len(f.payloads) - n + 1, Len(f.payloads))
        lowered == tmps(f.locals, "lowered", nl)
        declarations == [j \in 1..nl |-> SDecl(lowered[j])]
        arms == [i \in 1..n |->
                    lower_variant_arm(i, cases[i], blocks[i], payloads[i], lowered, op)]
        \* type_name_with_qualifier is called for every non-empty payload
        RECURSIVE named(_, _)
        named(g, i) == IF i > n THEN g
                       ELSE named(IF non_empty_type(cases[i].ty)
                                  THEN type_name_with_qualifier(g, cases[i].ty)
                                  ELSE g, i + 1)
    IN  Out([f EXCEPT
                !.blocks = SubSeq(@, 1, Len(@) - n),
                !.payloads = SubSeq(@, 1, Len(@) - n),
                !.locals = @ \cup Range(lowered),
                !.src = @ \o declarations \o
                        << [k |-> "switch", on |-> op \o ".Tag", arms |-> arms,
                            default |-> "throw"] >>],
            named(c.g, 1),
            lowered)

\* lift_variant_arm with the labels counted from 1: the faulty dispatch that
\* takes discriminant N for the last case and rejects 0.
lift_variant_arm_from_one(i, case, block, lifted) ==
    [ label |-> i,
      body |-> block.body,
      assign |-> SAssign(lifted, "new(" \o case.name \o ":" \o
                    (IF non_empty_type(case.ty) THEN block.results[1] ELSE "") \o ")"),
      ctor |-> case.name,
      arg |-> IF non_empty_type(case.ty) THEN block.results[1] ELSE "",
      brk |-> TRUE ]

\* lift_variant_arm that calls the case's constructor without the payload
\* the block lifted.
lift_variant_arm_no_payload(i, case, block, lifted) ==
    [ label |-> i - 1,
      body |-> block.body,
      assign |-> SAssign(lifted, "new(" \o case.name \o ":" \o ")"),
      ctor |-> case.name,
      arg |-> "",
      brk |-> TRUE ]

\* The arm of lift_variant's switch for case i (counted from 1).
lift_variant_arm(i, case, block, lifted) ==
    [ label |-> i - 1,
      body |-> block.body,
      assign |-> SAssign(lifted, "new(" \o case.name \o ":" \o
                    (IF non_empty_type(case.ty) THEN block.results[1] ELSE "") \o ")"),
      ctor |-> case.name,
      arg |-> IF non_empty_type(case.ty) THEN block.results[1] ELSE "",
      brk |-> TRUE ]

\* FunctionBindgen::lift_variant
lift_variant(c, ty, cases, op) ==
    LET f == c.f
        n == Len(cases)
        blocks == SubSeq(f.blocks, Len(f.blocks) - n + 1, Len(f.blocks))
        lifted == tmp(f.locals, "lifted")
        arms == [i \in 1..n |-> lift_variant_arm(i, cases[i], blocks[i], lifted)]
    IN  Out([f EXCEPT
                !.blocks = SubSeq(@, 1, Len(@) - n),
                !.locals = @ \cup {lifted},
                !.src = @ \o << SDecl(lifted),
                                [k |-> "switch", on |-> op, arms |-> arms,
                                 default |-> "throw", ty |-> ty] >>],
            type_name_with_qualifier(c.g, ty),
            <<lifted>>)

\* Instruction::GetArg
emit_GetArg(c, ins, operands) == Out(c.f, c.g, << c.f.params[ins.nth + 1] >>)

\* Instruction::I32Const
emit_I32Const(c, ins, operands) == Out(c.f, c.g, << ToString(ins.val) >>)

\* Instruction::ConstZero
emit_ConstZero(c, ins, operands) == Out(c.f, c.g, [j \in 1..ins.n |-> "0"])

\* Instruction::I32Load | PointerLoad | LengthLoad
emit_Load(c, ins, operands) ==
    Out(c.f, c.g,
        << "ToInt32(" \o operands[1] \o " + " \o ToString(ins.offset) \o ")" >>)

\* Instruction::I32Store | PointerStore | LengthStore
emit_Store(c, ins, operands) ==
    Out([c.f EXCEPT !.src = @ \o << SStore(operands[2], ins.offset, operands[1]) >>],
        c.g, <<>>)

\* Instruction::I32FromS32, S32FromI32 and the other conversions that pass
\* the operand through.
emit_Identity(c, ins, operands) == Out(c.f, c.g, << operands[1] >>)

\* Instruction::EnumLower
emit_EnumLower(c, ins, operands) == Out(c.f, c.g, << "(int)" \o operands[1] >>)

\* Instruction::EnumLift: a cast, and no statement.
emit_EnumLift(c, ins, operands) ==
    Out(c.f, type_name_with_qualifier(c.g, EnumT(ins.n)), << "(T)" \o operands[1] >>)

\* Instruction::VariantPayloadName
emit_VariantPayloadName(c, ins, operands) ==
    LET payload == tmp(c.f.locals, "payload")
    IN  Out([c.f EXCEPT !.locals = @ \cup {payload},
                        !.payloads = Append(@, payload)],
            c.g, <<payload>>)

\* Instruction::VariantLower
emit_VariantLower(c, ins, operands) == lower_variant(c, ins.cases, ins.nl, operands[1])

\* Instruction::ResultLower
emit_ResultLower(c, ins, operands) == lower_variant(c, ins.cases, ins.nl, operands[1])

\* Instruction::VariantLift
emit_VariantLift(c, ins, operands) == lift_variant(c, ins.ty, ins.cases, operands[1])

\* Instruction::ResultLift
emit_ResultLift(c, ins, operands) == lift_variant(c, ins.ty, ins.cases, operands[1])

\* The closure `block` of Instruction::OptionLower: one arm of the if.
option_lower_block(ty, block, payload, lowered, op) ==
    [ payload |-> IF non_empty_type(ty)
                  THEN << SVar(payload, "(" \o op \o ").Value") >>
                  ELSE <<>>,
      body |-> block.body,
      assignments |-> [j \in 1..(IF Len(lowered) <= Len(block.results)
                                 THEN Len(lowered) ELSE Len(block.results)) |->
                          SAssign(lowered[j], block.results[j])] ]

\* Instruction::OptionLower popping the two blocks in the other order: the
\* none block lands under the has-value test.
emit_OptionLower_swapped(c, ins, operands) ==
    LET f == c.f
        nb == Len(f.blocks)
        np == Len(f.payloads)
        some == f.blocks[nb - 1]
        none == f.blocks[nb]
        some_payload == f.payloads[np - 1]
        none_payload == f.payloads[np]
        lowered == tmps(f.locals, "lowered", ins.nl)
        declarations == [j \in 1..ins.nl |-> SDecl(lowered[j])]
        op == operands[1]
    IN  Out([f EXCEPT
                !.blocks = SubSeq(@, 1, nb - 2),
                !.payloads = SubSeq(@, 1, np - 2),
                !.locals = @ \cup Range(lowered),
                !.src = @ \o declarations \o
                    << [k |-> "if", cond |-> "(" \o op \o ").HasValue",
                        then |-> option_lower_block(ins.payload, some, some_payload,
                                                    lowered, op),
                        else |-> option_lower_block(NoType, none, none_payload,
                                                    lowered, op)] >>],
            c.g, lowered)

\* Instruction::OptionLower
emit_OptionLower(c, ins, operands) ==
    LET f == c.f
        nb == Len(f.blocks)
        np == Len(f.payloads)
        some == f.blocks[nb]
        none == f.blocks[nb - 1]
        some_payload == f.payloads[np]
        none_payload == f.payloads[np - 1]
        lowered == tmps(f.locals, "lowered", ins.nl)
        declarations == [j \in 1..ins.nl |-> SDecl(lowered[j])]
        op == operands[1]
    IN  Out([f EXCEPT
                !.blocks = SubSeq(@, 1, nb - 2),
                !.payloads = SubSeq(@, 1, np - 2),
                !.locals = @ \cup Range(lowered),
                !.src = @ \o declarations \o
                    << [k |-> "if", cond |-> "(" \o op \o ").HasValue",
                        then |-> option_lower_block(ins.payload, some, some_payload,
                                                    lowered, op),
                        else |-> option_lower_block(NoType, none, none_payload,
                                                    lowered, op)] >>],
            c.g, lowered)

\* Instruction::OptionLift
emit_OptionLift(c, ins, operands) ==
    LET f == c.f
        nb == Len(f.blocks)
        some == f.blocks[nb]
        lifted == tmp(f.locals, "lifted")
        op == operands[1]
        payload == IF non_empty_type(ins.payload) THEN some.results[1] ELSE "null"
    IN  Out([f EXCEPT
                !.blocks = SubSeq(@, 1, nb - 2),
                !.locals = @ \cup {lifted},
                !.src = @ \o
                    << SDecl(lifted),
                       [k |-> "switch", on |-> op,
                        arms |-> << [label |-> 0, body |-> <<>>,
                                     assign |-> SAssign(lifted, "None"),
                                     ctor |-> "none", arg |-> "", brk |-> TRUE],
                                    [label |-> 1, body |-> some.body,
                                     assign |-> SAssign(lifted, "new (" \o payload \o ")"),
                                     ctor |-> "some", arg |-> payload, brk |-> TRUE] >>,
                        default |-> "throw", ty |-> ins.ty] >>],
            type_name_with_qualifier(c.g, ins.ty),
            <<lifted>>)

\* Instruction::ListCanonLower
emit_ListCanonLower(c, ins, operands) ==
    LET f == c.f
        list == operands[1]
    IN  IF c.dir = "Import"
        THEN LET buffer == tmp(f.locals, "buffer")
             IN  Out([f EXCEPT
                         !.locals = @ \cup {buffer},
                         !.src = @ \o << [k |-> "stackalloc", name |-> buffer,
                                          list |-> list] >>],
                     c.g,
                     << "(int)" \o buffer, "(" \o list \o ").Length" >>)
        ELSE LET address == tmp(f.locals, "address")
                 l1 == f.locals \cup {address}
                 buffer == tmp(l1, "buffer")
                 l2 == l1 \cup {buffer}
                 gc_handle == tmp(l2, "gcHandle")
             IN  Out([f EXCEPT
                         !.locals = l2 \cup {gc_handle},
                         !.src = @ \o << [k |-> "newbuf", name |-> buffer, list |-> list],
                                         [k |-> "pin", name |-> gc_handle,
                                          buffer |-> buffer],
                                         SVar(address, gc_handle \o ".AddrOfPinnedObject()") >>,
                         !.cleanup = IF ins.realloc = "none"
                                     THEN Append(@, [address |-> gc_handle]) ELSE @],
                     c.g,
                     << "((IntPtr)(" \o address \o ")).ToInt32()", list \o ".Count()" >>)

\* Instruction::ListCanonLift
emit_ListCanonLift(c, ins, operands) ==
    LET array == tmp(c.f.locals, "array")
    IN  Out([c.f EXCEPT
                !.locals = @ \cup {array},
                !.src = @ \o << [k |-> "copyin", name |-> array,
                                 address |-> operands[1], length |-> operands[2]] >>],
            c.g, <<array>>)

\* Instruction::StringLower.  InteropString.FromString pins the bytes with
\* GCHandle.Alloc and returns the address (the helper emitted by finish).
emit_StringLower(c, ins, operands) ==
    LET f == c.f
        interop_string == tmp(f.locals, "interopString")
        result_var == tmp(f.locals \cup {interop_string}, "result")
    IN  Out([f EXCEPT
                !.locals = @ \cup {interop_string, result_var},
                !.src = @ \o << SVar(result_var, operands[1]),
                                [k |-> "fromstring", name |-> interop_string,
                                 arg |-> result_var] >>],
            [c.g EXCEPT !.needs_interop_string = TRUE],
            << interop_string \o ".ToInt32()", "length" \o result_var >>)

\* Instruction::StringLift
emit_StringLift(c, ins, operands) ==
    Out(c.f, c.g, << "GetString(" \o operands[1] \o ", " \o operands[2] \o ")" >>)

\* Instruction::ListLower
emit_ListLower(c, ins, operands) ==
    LET f == c.f
        block == Last(f.blocks)
        list == operands[1]
        index == tmp(f.locals, "index")
        l1 == f.locals \cup {index}
        buffer == tmp(l1, "buffer")
        l2 == l1 \cup {buffer}
        gc_handle == tmp(l2, "gcHandle")
        l3 == l2 \cup {gc_handle}
        address == tmp(l3, "address")
    IN  IF block.results # <<>> THEN Panic(c) ELSE
        Out([f EXCEPT
                !.blocks = Front(@),
                !.locals = l3 \cup {address},
                !.src = @ \o
                    << [k |-> "newbuf", name |-> buffer, list |-> list],
                       [k |-> "pin", name |-> gc_handle, buffer |-> buffer],
                       SVar(address, gc_handle \o ".AddrOfPinnedObject()"),
                       [k |-> "for", index |-> index, bound |-> list \o ".Count()",
                        head |-> << SVar(block.element,
                                         list \o "[" \o index \o "]"),
                                    SVar(block.base,
                                         "(int)" \o address \o " + (" \o index \o " * "
                                         \o ToString(ins.size) \o ")") >>,
                        body |-> block.body,
                        tail |-> <<>>] >>,
                !.cleanup = IF ins.realloc = "none"
                            THEN Append(@, [address |-> gc_handle]) ELSE @],
            type_name_with_qualifier(c.g, ins.ty),
            << "(int)" \o address, list \o ".Count()" >>)

\* Instruction::ListLift whose loop reads every element at the address of
\* the first one.
emit_ListLift_first_address(c, ins, operands) ==
    LET f == c.f
        block == Last(f.blocks)
        address == operands[1]
        length == operands[2]
        array == tmp(f.locals, "array")
        index == tmp(f.locals \cup {array}, "index")
    IN  IF Len(block.results) # 1 THEN Panic(c) ELSE
        Out([f EXCEPT
                !.blocks = Front(@),
                !.locals = @ \cup {array, index},
                !.src = @ \o
                    << [k |-> "newlist", name |-> array, length |-> length],
                       [k |-> "for", index |-> index, bound |-> length,
                        head |-> << SVar(block.base, address) >>,
                        body |-> block.body,
                        tail |-> << [k |-> "add", name |-> array,
                                     val |-> block.results[1]] >>] >>],
            type_name_with_qualifier(c.g, ins.ty),
            <<array>>)

\* Instruction::ListLift
emit_ListLift(c, ins, operands) ==
    LET f == c.f
        block == Last(f.blocks)
        address == operands[1]
        length == operands[2]
        array == tmp(f.locals, "array")
        index == tmp(f.locals \cup {array}, "index")
    IN  IF Len(block.results) # 1 THEN Panic(c) ELSE
        Out([f EXCEPT
                !.blocks = Front(@),
                !.locals = @ \cup {array, index},
                !.src = @ \o
                    << [k |-> "newlist", name |-> array, length |-> length],
                       [k |-> "for", index |-> index, bound |-> length,
                        head |-> << SVar(block.base,
                                         address \o " + (" \o index \o " * "
                                         \o ToString(ins.size) \o ")") >>,
                        body |-> block.body,
                        tail |-> << [k |-> "add", name |-> array,
                                     val |-> block.results[1]] >>] >>],
            type_name_with_qualifier(c.g, ins.ty),
            <<array>>)

\* Instruction::IterElem
emit_IterElem(c, ins, operands) == Out(c.f, c.g, << Last(c.f.block_storage).element >>)

\* Instruction::IterBasePointer
emit_IterBasePointer(c, ins, operands) == Out(c.f, c.g, << Last(c.f.block_storage).base >>)

\* operands.join(",")
RECURSIVE JoinComma(_)
JoinComma(ss) ==
    IF ss = <<>> THEN ""
    ELSE IF Len(ss) = 1 THEN ss[1]
    ELSE ss[1] \o "," \o JoinComma(Tail(ss))

\* Instruction::TupleLift
emit_TupleLift(c, ins, operands) ==
    Out(c.f, c.g, << "(" \o JoinComma(operands) \o "\n)" >>)

\* Instruction::TupleLower
emit_TupleLower(c, ins, operands) ==
    Out(c.f, c.g,
        IF ins.n = 1 THEN << "(" \o operands[1] \o ")" >>
        ELSE [i \in 1..ins.n |-> "(" \o operands[1] \o ").Item" \o ToString(i)])

\* Instruction::CallWasm that assigns the call to no local and pushes
\* nothing, whatever the signature.
emit_CallWasm_no_result(c, ins, operands) ==
    Out([c.f EXCEPT
            !.src = @ \o << [k |-> "callwasm", assignment |-> "",
                             operands |-> operands] >>],
        c.g, <<>>)

\* Instruction::CallWasm: one local for the one result, none for no result,
\* unreachable!() for more.
emit_CallWasm(c, ins, operands) ==
    IF ins.nres = 1
    THEN LET result == tmp(c.f.locals, "result")
         IN  Out([c.f EXCEPT
                     !.locals = @ \cup {result},
                     !.src = @ \o << [k |-> "callwasm", assignment |-> result,
                                      operands |-> operands] >>],
                 c.g, <<result>>)
    ELSE IF ins.nres = 0
    THEN Out([c.f EXCEPT
                 !.src = @ \o << [k |-> "callwasm", assignment |-> "",
                                  operands |-> operands] >>],
             c.g, <<>>)
    ELSE Panic(c)

\* Malloc, GuestDeallocate* taken as instructions that emit nothing.
emit_Unsupported_noop(c, ins, operands) == Out(c.f, c.g, <<>>)

\* Instruction::Malloc (unimplemented!()) and Instruction::GuestDeallocate,
\* GuestDeallocateString, GuestDeallocateVariant, GuestDeallocateList
\* (todo!()).
emit_Unsupported(c, ins, operands) == Panic(c)

\* The argument text `oper` built by Instruction::CallInterface.
RECURSIVE call_interface_oper(_, _, _)
call_interface_oper(kind, operands, i) ==
    IF i > Len(operands) THEN ""
    ELSE (IF i = 1 /\ kind = "Method" THEN ""
          ELSE "(" \o operands[i] \o ")" \o
               (IF i - 1 < Len(operands) /\ Len(operands) # i THEN ", " ELSE ""))
         \o call_interface_oper(kind, operands, i + 1)

\* Instruction::CallInterface writing the pending drops before the call
\* statement instead of after it.
emit_CallInterface_drops_first(c, ins, operands) ==
    LET f == c.f
        oper == call_interface_oper(f.kind, operands, 1)
        target == CASE f.kind = "Static" -> "Impl.R"
                    [] f.kind = "Method" -> operands[1]
                    [] f.kind = "Constructor" -> "Impl.R"
                    [] OTHER -> "Impl"
        ret == tmp(f.locals, "ret")
        hasret == f.kind = "Constructor" \/ ins.nres >= 1
        call == [k |-> "callinterface",
                 assignment |-> IF hasret THEN ret ELSE "",
                 new |-> f.kind = "Constructor",
                 target |-> target, oper |-> oper]
        drops == [j \in 1..Len(f.resource_drops) |-> SRaw(f.resource_drops[j])]
        results == IF f.kind = "Constructor" \/ ins.nres = 1 THEN <<ret>>
                   ELSE [j \in 1..ins.nres |-> ret \o ".Item" \o ToString(j)]
    IN  Out([f EXCEPT
                !.locals = IF hasret THEN @ \cup {ret} ELSE @,
                !.src = @ \o drops \o <<call>>,
                !.resource_drops = <<>>],
            c.g, results)

\* Instruction::CallInterface passing the receiver of a method as an argument
\* as well.
emit_CallInterface_with_receiver(c, ins, operands) ==
    LET f == c.f
        oper == call_interface_oper("Freestanding", operands, 1)
        target == CASE f.kind = "Static" -> "Impl.R"
                    [] f.kind = "Method" -> operands[1]
                    [] f.kind = "Constructor" -> "Impl.R"
                    [] OTHER -> "Impl"
        ret == tmp(f.locals, "ret")
        hasret == f.kind = "Constructor" \/ ins.nres >= 1
        call == [k |-> "callinterface",
                 assignment |-> IF hasret THEN ret ELSE "",
                 new |-> f.kind = "Constructor",
                 target |-> target, oper |-> oper]
        drops == [j \in 1..Len(f.resource_drops) |-> SRaw(f.resource_drops[j])]
        results == IF f.kind = "Constructor" \/ ins.nres = 1 THEN <<ret>>
                   ELSE [j \in 1..ins.nres |-> ret \o ".Item" \o ToString(j)]
    IN  Out([f EXCEPT
                !.locals = IF hasret THEN @ \cup {ret} ELSE @,
                !.src = @ \o <<call>> \o drops,
                !.resource_drops = <<>>],
            c.g, results)

\* Instruction::CallInterface that writes the pending drops but keeps them
\* pending.
emit_CallInterface_keeps_drops(c, ins, operands) ==
    LET f == c.f
        oper == call_interface_oper(f.kind, operands, 1)
        target == CASE f.kind = "Static" -> "Impl.R"
                    [] f.kind = "Method" -> operands[1]
                    [] f.kind = "Constructor" -> "Impl.R"
                    [] OTHER -> "Impl"
        ret == tmp(f.locals, "ret")
        hasret == f.kind = "Constructor" \/ ins.nres >= 1
        call == [k |-> "callinterface",
                 assignment |-> IF hasret THEN ret ELSE "",
                 new |-> f.kind = "Constructor",
                 target |-> target, oper |-> oper]
        drops == [j \in 1..Len(f.resource_drops) |-> SRaw(f.resource_drops[j])]
        results == IF f.kind = "Constructor" \/ ins.nres = 1 THEN <<ret>>
                   ELSE [j \in 1..ins.nres |-> ret \o ".Item" \o ToString(j)]
    IN  Out([f EXCEPT
                !.locals = IF hasret THEN @ \cup {ret} ELSE @,
                !.src = @ \o <<call>> \o drops],
            c.g, results)

\* Instruction::CallInterface
emit_CallInterface(c, ins, operands) ==
    LET f == c.f
        oper == call_interface_oper(f.kind, operands, 1)
        target == CASE f.kind = "Static" -> "Impl.R"
                    [] f.kind = "Method" -> operands[1]
                    [] f.kind = "Constructor" -> "Impl.R"
                    [] OTHER -> "Impl"
        ret == tmp(f.locals, "ret")
        hasret == f.kind = "Constructor" \/ ins.nres >= 1
        call == [k |-> "callinterface",
                 assignment |-> IF hasret THEN ret ELSE "",
                 new |-> f.kind = "Constructor",
                 target |-> target, oper |-> oper]
        drops == [j \in 1..Len(f.resource_drops) |-> SRaw(f.resource_drops[j])]
        results == IF f.kind = "Constructor" \/ ins.nres = 1 THEN <<ret>>
                   ELSE [j \in 1..ins.nres |-> ret \o ".Item" \o ToString(j)]
    IN  Out([f EXCEPT
                !.locals = IF hasret THEN @ \cup {ret} ELSE @,
                !.src = @ \o <<call>> \o drops,
                !.resource_drops = <<>>],
            c.g, results)

\* Instruction::Return
emit_Return(c, ins, operands) ==
    LET f == c.f
        frees == [j \in 1..Len(f.cleanup) |-> SFree(f.cleanup[j].address)]
        ret == IF f.kind = "Constructor" \/ ins.nres = 0 THEN <<>>
               ELSE << SReturn(operands) >>
    IN  Out([f EXCEPT !.src = @ \o frees \o ret], c.g, <<>>)

\* Instruction::HandleLower
emit_HandleLower(c, ins, operands) ==
    LET f == c.f
        is_own == ins.own
        handle == tmp(f.locals, "handle")
        res_direction == c.g.resources[ins.r]
        op == operands[1]
        read == [k |-> "readhandle", name |-> handle, obj |-> op]
        local_rep == tmp(f.locals \cup {handle}, "localRep")
    IN  IF res_direction = "Import"
        THEN Out([f EXCEPT
                     !.locals = @ \cup {handle},
                     !.src = @ \o <<read>> \o
                             (IF is_own
                              THEN << [k |-> "sethandle", obj |-> op, rhs |-> "null"] >>
                              ELSE <<>>)],
                 c.g,
                 << "((int) handle)" >>)
        ELSE Out([f EXCEPT
                     !.locals = @ \cup {handle, local_rep},
                     !.src = @ \o <<read>> \o
                        << [k |-> "ifnohandle", cond |-> "handle",
                            body |->
                              IF is_own
                              THEN << [k |-> "repadd", name |-> local_rep, obj |-> op],
                                      [k |-> "resourcenew", name |-> handle,
                                       rep |-> local_rep],
                                      [k |-> "sethandle", obj |-> op, rhs |-> handle] >>
                              ELSE << [k |-> "repadd", name |-> local_rep, obj |-> op],
                                      [k |-> "sethandle", obj |-> op,
                                       rhs |-> local_rep] >>] >>],
                 [c.g EXCEPT !.needs_rep_table = TRUE],
                 << "((int) handle)" >>)

\* Instruction::HandleLift
emit_HandleLift(c, ins, operands) ==
    LET f == c.f
        is_own == ins.own
        fresh == tmp(f.locals, "resource")
        res_direction == c.g.resources[ins.r]
        op == operands[1]
        resource == IF res_direction = "Import" /\ f.kind = "Constructor"
                    THEN "this" ELSE fresh
    IN  IF res_direction = "Import"
        THEN Out([f EXCEPT
                     !.locals = @ \cup {fresh},
                     !.src = @ \o
                        (IF f.kind = "Constructor" THEN <<>>
                         ELSE << [k |-> "newresource", name |-> resource] >>)
                        \o << [k |-> "sethandle", obj |-> resource, rhs |-> op] >>,
                     !.resource_drops = IF is_own THEN @
                                        ELSE Append(@, resource \o ".Dispose();")],
                 c.g, <<resource>>)
        ELSE Out([f EXCEPT
                     !.locals = @ \cup {fresh},
                     !.src = @ \o
                        (IF is_own
                         THEN << [k |-> "represmove", name |-> resource,
                                  fn |-> "wasmImportResourceRep", arg |-> op],
                                 [k |-> "sethandle", obj |-> resource, rhs |-> "null"] >>
                         ELSE << [k |-> "repget", name |-> resource, arg |-> op] >>)],
                 [c.g EXCEPT !.needs_rep_table = TRUE],
                 <<resource>>)

\* return_pointer keeping the latest request instead of the largest.
return_pointer_latest(c, size, align) ==
    LET f == c.f
        ptr == tmp(f.locals, "ptr")
    IN  IF c.dir = "Import"
        THEN LET ret_area == tmp(f.locals \cup {ptr}, "retArea")
             IN  Out([f EXCEPT
                         !.locals = @ \cup {ptr, ret_area},
                         !.import_return_pointer_area_size = Max2(@, size),
                         !.import_return_pointer_area_align = Max2(@, align),
                         !.src = @ \o << [k |-> "importarea", name |-> ret_area],
                                         SVar(ptr, ret_area \o ".AddressOfReturnArea()") >>],
                     c.g, <<ptr>>)
        ELSE Out([f EXCEPT
                     !.locals = @ \cup {ptr},
                     !.src = @ \o << SVar(ptr,
                            "InteropReturnArea.returnArea.AddressOfReturnArea()") >>],
                 [c.g EXCEPT
                     !.return_area_size = size,
                     !.return_area_align = align,
                     !.needs_export_return_area = TRUE],
                 <<ptr>>)

\* FunctionBindgen::return_pointer whose import branch also records the
\* request in the module-wide export area.
return_pointer_import_shared(c, size, align) ==
    LET f == c.f
        ptr == tmp(f.locals, "ptr")
        ret_area == tmp(f.locals \cup {ptr}, "retArea")
    IN  IF c.dir = "Import"
        THEN Out([f EXCEPT
                     !.locals = @ \cup {ptr, ret_area},
                     !.import_return_pointer_area_size = Max2(@, size),
                     !.import_return_pointer_area_align = Max2(@, align),
                     !.src = @ \o << [k |-> "importarea", name |-> ret_area],
                                     SVar(ptr, ret_area \o ".AddressOfReturnArea()") >>],
                 [c.g EXCEPT
                     !.return_area_size = Max2(@, size),
                     !.return_area_align = Max2(@, align),
                     !.needs_export_return_area = TRUE],
                 <<ptr>>)
        ELSE Out([f EXCEPT
                     !.locals = @ \cup {ptr},
                     !.src = @ \o << SVar(ptr,
                            "InteropReturnArea.returnArea.AddressOfReturnArea()") >>],
                 [c.g EXCEPT
                     !.return_area_size = Max2(@, size),
                     !.return_area_align = Max2(@, align),
                     !.needs_export_return_area = TRUE],
                 <<ptr>>)

\* FunctionBindgen::return_pointer
return_pointer(c, size, align) ==
    LET f == c.f
        ptr == tmp(f.locals, "ptr")
    IN  IF c.dir = "Import"
        THEN LET ret_area == tmp(f.locals \cup {ptr}, "retArea")
             IN  Out([f EXCEPT
                         !.locals = @ \cup {ptr, ret_area},
                         !.import_return_pointer_area_size = Max2(@, size),
                         !.import_return_pointer_area_align = Max2(@, align),
                         !.src = @ \o << [k |-> "importarea", name |-> ret_area],
                                         SVar(ptr, ret_area \o ".AddressOfReturnArea()") >>],
                     c.g, <<ptr>>)
        ELSE Out([f EXCEPT
                     !.locals = @ \cup {ptr},
                     !.src = @ \o << SVar(ptr,
                            "InteropReturnArea.returnArea.AddressOfReturnArea()") >>],
                 [c.g EXCEPT
                     !.return_area_size = Max2(@, size),
                     !.return_area_align = Max2(@, align),
                     !.needs_export_return_area = TRUE],
                 <<ptr>>)

\* FunctionBindgen::push_block
push_block(c) ==
    LET f == c.f
        element == tmp(f.locals, "element")
        base == tmp(f.locals \cup {element}, "basePtr")
    IN  Out([f EXCEPT
                !.block_storage = Append(@, [body |-> f.src, element |-> element,
                                             base |-> base, cleanup |-> f.cleanup]),
                !.src = <<>>,
                !.cleanup = <<>>,
                !.locals = @ \cup {element, base}],
            c.g, <<>>)

\* FunctionBindgen::finish_block that leaves the block's statements in the
\* buffer it goes back to.
finish_block_leaky(c, operands) ==
    LET f == c.f
        storage == Last(f.block_storage)
        frees == [j \in 1..Len(f.cleanup) |-> SFree(f.cleanup[j].address)]
    IN  Out([f EXCEPT
                !.block_storage = Front(@),
                !.cleanup = storage.cleanup,
                !.blocks = Append(@, [body |-> f.src \o frees,
                                      results |-> operands,
                                      element |-> storage.element,
                                      base |-> storage.base]),
                !.src = storage.body \o f.src],
            c.g, <<>>)

\* FunctionBindgen::finish_block
finish_block(c, operands) ==
    LET f == c.f
        storage == Last(f.block_storage)
        frees == [j \in 1..Len(f.cleanup) |-> SFree(f.cleanup[j].address)]
    IN  Out([f EXCEPT
                !.block_storage = Front(@),
                !.cleanup = storage.cleanup,
                !.blocks = Append(@, [body |-> f.src \o frees,
                                      results |-> operands,
                                      element |-> storage.element,
                                      base |-> storage.base]),
                !.src = storage.body],
            c.g, <<>>)

\* finish writing the Option helper whether or not it was asked for.
finish_option_always(g) ==
    (IF g.needs_result THEN << [k |-> "helper", name |-> "Result"] >> ELSE <<>>)
    \o << [k |-> "helper", name |-> "Option"] >>
    \o (IF g.needs_interop_string
        THEN << [k |-> "helper", name |-> "InteropString"] >> ELSE <<>>)
    \o (IF g.needs_export_return_area
        THEN << [k |-> "returnarea", name |-> "InteropReturnArea",
                 size |-> g.return_area_size, align |-> g.return_area_align] >>
        ELSE <<>>)
    \o (IF g.needs_rep_table THEN << [k |-> "helper", name |-> "RepTable"] >> ELSE <<>>)

\* CSharp::finish: the module-wide helpers, each under its flag.
finish(g) ==
    (IF g.needs_result THEN << [k |-> "helper", name |-> "Result"] >> ELSE <<>>)
    \o (IF g.needs_option THEN << [k |-> "helper", name |-> "Option"] >> ELSE <<>>)
    \o (IF g.needs_interop_string
        THEN << [k |-> "helper", name |-> "InteropString"] >> ELSE <<>>)
    \o (IF g.needs_export_return_area
        THEN << [k |-> "returnarea", name |-> "InteropReturnArea",
                 size |-> g.return_area_size, align |-> g.return_area_align] >>
        ELSE <<>>)
    \o (IF g.needs_rep_table THEN << [k |-> "helper", name |-> "RepTable"] >> ELSE <<>>)

(***************************************************************************)
(* Flags.  A C# integer is modelled by the set of its bits that are set,   *)
(* so that 64-bit values and the sign bit are exact.                       *)
(***************************************************************************)
\* Flags::repr: the representation chosen for n members.
FlagsRepr(n) ==
    IF n <= 8 THEN [k |-> "U8", count |-> 1]
    ELSE IF n <= 16 THEN [k |-> "U16", count |-> 1]
    ELSE [k |-> "U32", count |-> (n + 31) \div 32]

\* type_flags: the underlying type of the emitted enum, as its width in
\* bits; only a U32(2) representation is declared ulong, the default is int.
type_flags(n) ==
    LET repr == FlagsRepr(n)
    IN  [ width |-> CASE repr.k = "U32" /\ repr.count = 2 -> 64
                      [] repr.k = "U16" -> 16
                      [] repr.k = "U8" -> 8
                      [] OTHER -> 32,
          suffix |-> IF repr.k = "U32" /\ repr.count = 2 THEN "UL" ELSE "" ]

\* Instruction::FlagsLower: the expressions pushed, by their form.
emit_FlagsLower(n, op) ==
    IF n > 32
    THEN << [form |-> "low32", op |-> op], [form |-> "high32", op |-> op] >>
    ELSE << [form |-> "int", op |-> op] >>

\* Instruction::FlagsLift without the cast of the low word to uint: the low
\* word is sign-extended before it is joined.
emit_FlagsLift_signed(n, operands) ==
    IF n > 32
    THEN << [form |-> "join", lo_cast |-> "int", lo |-> operands[1],
             hi_cast |-> "uint", hi |-> operands[2]] >>
    ELSE << [form |-> "cast", op |-> operands[1]] >>

\* Instruction::FlagsLift: the expression pushed.
emit_FlagsLift(n, operands) ==
    IF n > 32
    THEN << [form |-> "join", lo_cast |-> "uint", lo |-> operands[1],
             hi_cast |-> "uint", hi |-> operands[2]] >>
    ELSE << [form |-> "cast", op |-> operands[1]] >>

\* The value `1 << i` of member i in an enum of the given width: C# masks
\* the shift count to the width of the left operand (int 32, ulong 64).
MemberBit(decl, i) == IF decl.suffix = "UL" THEN i % 64 ELSE i % 32

\* The enum value with the members S set.
EnumValue(decl, S) == {MemberBit(decl, i) : i \in S} \cap (0 .. decl.width - 1)

\* Arithmetic shift right by 32 of a long: the sign bit fills the top.
SarLong32(bits) ==
    {b - 32 : b \in {x \in bits : x >= 32}} \cup (IF 63 \in bits THEN 32..63 ELSE {})

\* An expression of FlagsLower evaluated on the enum value: a 32-bit word.
EvalLower(e, value) ==
    CASE e.form = "int" -> value \cap (0..31)
      [] e.form = "low32" -> (value \cap (0..31)) \cap (0..31)
      [] e.form = "high32" -> SarLong32(value) \cap (0..31)

\* A 32-bit word widened to 64 bits after a cast to uint (zero fill) or
\* left as int (sign fill).
Widen(cast, word) ==
    IF cast = "uint" THEN word
    ELSE word \cup (IF 31 \in word THEN 32..63 ELSE {})

\* The expression of FlagsLift evaluated on the words, cast to the enum.
EvalLift(e, decl, words) ==
    (CASE e.form = "cast" -> words[1]
       [] e.form = "join" ->
            Widen(e.lo_cast, words[1])
            \cup ({b + 32 : b \in Widen(e.hi_cast, words[2])} \cap (0..63)))
    \cap (0 .. decl.width - 1)

\* Run-time values of the emitted code: a nullable int, or a reference to
\* an object.
NullV == [has |-> FALSE, v |-> 0, obj |-> ""]
IntV(n) == [has |-> TRUE, v |-> n, obj |-> ""]
ObjV(o) == [has |-> TRUE, v |-> 0, obj |-> o]

HandleIdle == [pc |-> "off", at |-> 1, heap |-> <<>>, env |-> <<>>, table |-> <<>>,
               minted |-> <<>>, next_rep |-> 1, next_handle |-> 1, log |-> <<>>,
               init |-> <<>>, wasm_ret |-> NullV, impl_ret |-> "", fault |-> FALSE]

\* The member positions whose combinations are tried: the ends of every
\* word and representation.
SampleBits == {0, 7, 8, 15, 16, 31, 32, 33, 63}

FlagsIdle == [pc |-> "off", n |-> 0, decl |-> type_flags(1), members |-> {},
              exprs |-> <<>>, words |-> <<>>, lift |-> <<>>, lifted |-> {}]

(***************************************************************************)
(* The functions translated.                                               *)
(***************************************************************************)
Resources == [imp |-> "Import", exp |-> "Export"]

Payloads == {NoType, S32, Str}
Variants == {VariantT(cs) : cs \in UNION {[1..n -> Payloads] : n \in 1..MaxCases}}
Leaves == {S32, S64, Str, ListC, Own("imp"), Borrow("imp"), Own("exp"), Borrow("exp")}
          \cup {EnumT(n) : n \in 1..MaxCases}
Options == {OptionT(t) : t \in {S32, S64, Str, Own("imp"), Borrow("exp"), ListT(Str),
                                OptionT(Str), EnumT(2)}}
Results == {ResultT(a, b) : a, b \in Payloads}
Lists == {ListT(t) : t \in {Str, ListT(Str), Own("exp"), OptionT(Str),
                            ResultT(Str, NoType)}}
Nested == {VariantT(<<ListT(Str), OptionT(S32), NoType>>),
           ResultT(OptionT(Str), ListC),
           OptionT(VariantT(<<Str, NoType>>))}
Tuples == {TupleT(<<S32>>), TupleT(<<S32, S32>>), TupleT(<<Str, Own("imp"), S32>>)}
ArgTypes == Leaves \cup Options \cup Results \cup Variants \cup Lists \cup Nested
ResTypes == ArgTypes \ {Borrow("imp"), Borrow("exp")}
PairTypes == {S32, Str, Own("imp"), Borrow("imp"), Own("exp"), Borrow("exp")}
Dirs == {"Import", "Export"}

Funcs ==
    {Func(d, "Freestanding", <<t>>, NoType) : d \in Dirs, t \in ArgTypes}
    \cup {Func(d, "Freestanding", <<>>, t) : d \in Dirs, t \in ResTypes}
    \cup {Func(d, "Freestanding", <<t, u>>, r) :
            d \in Dirs, t \in PairTypes, u \in PairTypes, r \in {NoType, S32}}
    \cup {Func(d, "Method", <<Borrow(x), u>>, r) :
            d \in Dirs, x \in {"imp", "exp"}, u \in {S32, Str, Borrow("imp")},
            r \in {NoType, Str}}
    \cup {Func(d, "Method", <<Borrow("exp")>>, NoType) : d \in Dirs}
    \cup {Func(d, "Static", <<t>>, r) : d \in Dirs, t \in {S32, Str}, r \in {NoType, S32}}
    \cup {Func(d, "Constructor", <<t>>, Own(x)) :
            d \in Dirs, t \in {S32, Str}, x \in {"imp", "exp"}}
    \cup {Func(d, "Freestanding", <<t>>, r) :
            d \in Dirs, t \in Tuples, r \in {NoType, S32}}
    \cup {Func(d, "Freestanding", <<Borrow("imp")>>, VariantT(<<S32, NoType>>)) :
            d \in Dirs}

\* The functions of the world runs: few, but every instruction occurs.
WorldFuncs ==
    {Func(d, "Freestanding", <<>>, t) :
        d \in Dirs, t \in {Str, OptionT(Str), OptionT(S64), ResultT(OptionT(Str), ListC)}}
    \cup {Func(d, "Freestanding", <<t>>, NoType) :
            d \in Dirs, t \in {VariantT(<<ListT(Str), OptionT(S32), NoType>>),
                               ResultT(S32, Str), ListT(Own("exp")), EnumT(2),
                               Own("imp"),
                               TupleT(<<S32, S32>>), TupleT(<<Str, Own("imp"), S32>>)}}

\* The functions of the handle runs: handles only, so that the emitted
\* statements can be run.
HandleTypes == {Own("imp"), Borrow("imp"), Own("exp"), Borrow("exp")}
HandleFuncs ==
    {Func("Import", "Freestanding", ps, r) :
        ps \in UNION {[1..n -> HandleTypes] : n \in 1..2},
        r \in {NoType, Own("imp"), Own("exp")}}
    \cup {Func("Export", "Freestanding", <<t>>, r) :
            t \in HandleTypes, r \in {NoType, Own("exp")}}

\* The tagged types of the round trips: payloads without memory, so that the
\* emitted statements can be run on values.
RoundPayloads == {NoType, S32}
RoundTypes ==
    {VariantT(cs) : cs \in UNION {[1..n -> RoundPayloads] : n \in 1..MaxCases}}
    \cup {ResultT(a, b) : a, b \in RoundPayloads}
    \cup {OptionT(S32), OptionT(OptionT(S32)), ResultT(OptionT(S32), S32),
          VariantT(<<OptionT(S32), ResultT(S32, NoType)>>),
          OptionT(VariantT(<<NoType, S32>>))}
RoundFuncs == {Func("Import", "Freestanding", <<t>>, t) : t \in RoundTypes}

\* A value crossing the boundary: one side lowers the argument, the flat
\* values pass unchanged, the other side lifts them.
RoundTripStream(func) ==
    << With(Ins("GetArg", 0), [nth |-> 0]) >>
    \o LowerStream(func.params[1], "Import")
    \o LiftStream(func.params[1], "Export")

\* Parameter names of FunctionBindgen: the C# parameter names of an import
\* ("this" for the receiver of a method), the flat p0, p1, .. of an export.
ImportNames == <<"a", "b">>
ParamsOf(func, names) ==
    IF func.dir = "Import"
    THEN [i \in 1..Len(func.params) |->
            IF i = 1 /\ func.kind = "Method" THEN "this" ELSE names[i]]
    ELSE [i \in 1..SumFlat(func.params) |-> "p" \o ToString(i - 1)]

(***************************************************************************)
(* The state machine.                                                      *)
(***************************************************************************)
CSharp_default ==
    [ return_area_size |-> 0,
      return_area_align |-> 0,
      tuple_counts |-> {},
      needs_result |-> FALSE,
      needs_option |-> FALSE,
      needs_interop_string |-> FALSE,
      needs_export_return_area |-> FALSE,
      needs_rep_table |-> FALSE,
      resources |-> Resources ]

\* Before the first function: nothing handed over, nothing written,
\* nothing asyncified.
FinIdle == [done |-> FALSE]
AwIdle == [done |-> FALSE, panic |-> FALSE, i |-> 0, a |-> [made |-> <<>>]]
MacIdle == [done |-> FALSE]
AsyIdle == [done |-> FALSE, panic |-> FALSE, old |-> <<>>, new |-> <<>>]
AbiIdle == [prog |-> <<>>, ip |-> 1, stack |-> <<>>, saved |-> <<>>, nfuncs |-> 0,
            func |-> Func("Import", "Freestanding", <<>>, NoType),
            names |-> ImportNames, bad |-> "none", panic |-> FALSE,
            funcs |-> <<>>, ended |-> 0]
WorldIdle == [done |-> FALSE, src |-> <<>>, funcs |-> <<>>]

\* A panic unwinds out of the generator: no file is written, what had been
\* produced for the functions before is gone with it.
Aborted == WorldIdle

InitCommon ==
    /\ gen = CSharp_default
    /\ direction = "Import"
    /\ fb = FunctionBindgen_new("Freestanding", <<>>)
    /\ abi = AbiIdle
    /\ world_src = WorldIdle
    /\ asy = AsyIdle
    /\ fin = FinIdle
    /\ aw = AwIdle
    /\ mac = MacIdle
    /\ requests = {}
    /\ fl = FlagsIdle
    /\ hr = HandleIdle

Init == InitCommon /\ mode = "one"
InitWorld == InitCommon /\ mode = "world"

Running == ~abi.panic /\ abi.ip <= Len(abi.prog)
CurIns == abi.prog[abi.ip]
Ctx == [f |-> fb, g |-> gen, dir |-> direction]

\* The builder's emit: apply its moves, pop the operands, call the handler,
\* push the results.
Exec(insts, H(_, _, _)) ==
    /\ Running
    /\ CurIns.inst \in insts
    /\ LET ins == CurIns
           st1 == ApplyOps([stack |-> abi.stack, saved |-> abi.saved], ins.pre)
           n == Len(st1.stack)
           operands == SubSeq(st1.stack, n - ins.nops + 1, n)
           out == H(Ctx, ins, operands)
           st2 == ApplyOps([stack |-> SubSeq(st1.stack, 1, n - ins.nops) \o out.results,
                            saved |-> st1.saved], ins.post)
       IN  /\ fb' = out.f
           /\ gen' = out.g
           /\ abi' = IF out.panic THEN [abi EXCEPT !.panic = TRUE]
                     ELSE [abi EXCEPT !.ip = @ + 1, !.stack = st2.stack,
                                      !.saved = st2.saved]
           /\ world_src' = IF out.panic THEN Aborted ELSE world_src
    /\ UNCHANGED <<direction, mode, fl, hr, asy, fin, aw, mac>>

\* The ways a function handed to the generator can be malformed or
\* unsupported: a core signature of two results, a list element block that
\* yields no result, one of the instructions the backend does not implement.
UnsupportedInsts == {"Malloc", "GuestDeallocate", "GuestDeallocateString",
                     "GuestDeallocateVariant", "GuestDeallocateList"}
Malformations(func) ==
    IF mode # "fail" THEN {"none"}
    ELSE {"none"}
         \cup (IF Flat(func.result) = 1 THEN {"multi_result"} ELSE {})
         \cup (IF func.result.k = "list" /\ func.dir = "Import" THEN {"list_block"}
               ELSE {})
         \cup (IF func.result = NoType THEN UnsupportedInsts ELSE {})

\* The stream of a malformed function.
Malformed(prog, bad) ==
    CASE bad = "none" -> prog
      [] bad = "multi_result" ->
            [i \in 1..Len(prog) |->
                IF prog[i].inst = "CallWasm" THEN [prog[i] EXCEPT !.nres = 2]
                ELSE prog[i]]
      [] bad = "list_block" ->
            [i \in 1..Len(prog) |->
                IF prog[i].inst = "FinishBlock" /\ i < Len(prog)
                   /\ prog[i + 1].inst = "ListLift"
                THEN [prog[i] EXCEPT !.nops = 0, !.size = 0]
                ELSE prog[i]]
      [] OTHER -> Front(prog) \o << Ins(bad, 0), Last(prog) >>

\* The functions of the runs with failures.
FailFuncs ==
    {Func(d, "Freestanding", <<t>>, r) :
        d \in Dirs, t \in {S32, Str}, r \in {NoType, S32, ListT(Str)}}

\* The parameter names an import may come with: names that are no local of
\* the backend, or names the backend also uses for its locals.
NameChoices(func) ==
    IF mode = "one" /\ func.dir = "Import"
    THEN {ImportNames, <<"interopString", "result">>}
    ELSE {ImportNames}

\* The number of results of the function's core signature
\* (Resolve::wasm_signature); a malformed one has two.
SigResults(func, bad) ==
    IF bad = "multi_result" THEN 2
    ELSE IF RetPtr(func) THEN 0 ELSE Flat(func.result)

\* The types import names before abi::call (the result, unless the
\* function is a constructor), and the types import and export name after
\* it (export the result, both the parameters but a method's receiver).
NamedBefore(func) ==
    IF func.dir = "Export" \/ func.kind = "Constructor" THEN <<>>
    ELSE <<func.result>>
NamedAfter(func) ==
    LET params == IF func.kind = "Method" THEN Tail(func.params) ELSE func.params
    IN  IF func.dir = "Export" /\ func.kind # "Constructor"
        THEN <<func.result>> \o params ELSE params

\* InterfaceGenerator::import / export up to abi::call: import checks the
\* core signature and names the result type, then both make a new
\* FunctionBindgen and hand it the function's instruction stream.
NewFunction ==
    /\ ~Running
    /\ ~abi.panic
    /\ ~world_src.done
    /\ abi.ended = abi.nfuncs \/ mode \in {"handle", "round"}
    /\ abi.nfuncs < (IF mode \in {"world", "fail"} THEN MaxFuncs ELSE 1)
    /\ \E func \in (CASE mode = "one" -> Funcs
                      [] mode = "world" -> WorldFuncs
                      [] mode = "round" -> RoundFuncs
                      [] mode = "fail" -> FailFuncs
                      [] OTHER -> HandleFuncs) :
       \E names \in NameChoices(func), bad \in Malformations(func) :
        LET stop == func.dir = "Import" /\ SigResults(func, bad) > 1
            prog == IF mode = "round" THEN RoundTripStream(func)
                    ELSE Malformed(CallStream(func), bad)
        IN  /\ direction' = func.dir
            /\ fb' = FunctionBindgen_new(func.kind, ParamsOf(func, names))
            /\ gen' = IF stop THEN gen ELSE type_names(gen, NamedBefore(func))
            /\ abi' = [prog |-> IF stop THEN <<>> ELSE prog,
                       ip |-> 1, stack |-> <<>>, saved |-> <<>>,
                       nfuncs |-> abi.nfuncs + 1, func |-> func,
                       names |-> names, bad |-> bad, panic |-> stop,
                       funcs |-> Append(abi.funcs, func), ended |-> abi.ended]
            /\ world_src' = IF stop THEN Aborted ELSE world_src
    /\ UNCHANGED <<mode, requests, fl, hr, asy, fin, aw, mac>>

\* InterfaceGenerator::import / export after abi::call: export checks the
\* core signature; both name the parameter types (export the result type
\* too) and write the function, with the body the FunctionBindgen holds.
EndFunction ==
    /\ mode \in {"one", "world", "fail"}
    /\ ~Running
    /\ ~abi.panic
    /\ abi.ended < abi.nfuncs
    /\ LET func == abi.func
           stop == func.dir = "Export" /\ SigResults(func, abi.bad) > 1
       IN  /\ gen' = IF stop THEN gen ELSE type_names(gen, NamedAfter(func))
           /\ world_src' =
                IF stop THEN Aborted
                ELSE [world_src EXCEPT !.funcs = Append(@,
                        [func |-> func, src |-> fb.src,
                         area_size |-> fb.import_return_pointer_area_size,
                         area_align |-> fb.import_return_pointer_area_align])]
           /\ abi' = [abi EXCEPT !.panic = stop,
                                 !.ended = IF stop THEN @ ELSE @ + 1]
    /\ UNCHANGED <<direction, fb, mode, requests, fl, hr, asy, fin, aw, mac>>

GetArg == Exec({"GetArg"}, emit_GetArg) /\ UNCHANGED requests
I32Const == Exec({"I32Const"}, emit_I32Const) /\ UNCHANGED requests
ConstZero == Exec({"ConstZero"}, emit_ConstZero) /\ UNCHANGED requests
Load == Exec({"I32Load", "PointerLoad", "LengthLoad", "I32Load8U"}, emit_Load)
        /\ UNCHANGED requests
Store == Exec({"I32Store", "PointerStore", "LengthStore", "I32Store8"}, emit_Store)
         /\ UNCHANGED requests
Identity == Exec({"I32FromS32", "S32FromI32", "I64FromS64", "S64FromI64"}, emit_Identity)
            /\ UNCHANGED requests
EnumLower == Exec({"EnumLower"}, emit_EnumLower) /\ UNCHANGED requests
EnumLift == Exec({"EnumLift"}, emit_EnumLift) /\ UNCHANGED requests
VariantPayloadName == Exec({"VariantPayloadName"}, emit_VariantPayloadName)
                      /\ UNCHANGED requests
VariantLower == Exec({"VariantLower"}, emit_VariantLower) /\ UNCHANGED requests
ResultLower == Exec({"ResultLower"}, emit_ResultLower) /\ UNCHANGED requests
VariantLift == Exec({"VariantLift"}, emit_VariantLift) /\ UNCHANGED requests
ResultLift == Exec({"ResultLift"}, emit_ResultLift) /\ UNCHANGED requests
OptionLower == Exec({"OptionLower"}, emit_OptionLower) /\ UNCHANGED requests
OptionLift == Exec({"OptionLift"}, emit_OptionLift) /\ UNCHANGED requests
ListCanonLower == Exec({"ListCanonLower"}, emit_ListCanonLower) /\ UNCHANGED requests
ListCanonLift == Exec({"ListCanonLift"}, emit_ListCanonLift) /\ UNCHANGED requests
StringLower == Exec({"StringLower"}, emit_StringLower) /\ UNCHANGED requests
StringLift == Exec({"StringLift"}, emit_StringLift) /\ UNCHANGED requests
ListLower == Exec({"ListLower"}, emit_ListLower) /\ UNCHANGED requests
ListLift == Exec({"ListLift"}, emit_ListLift) /\ UNCHANGED requests
IterElem == Exec({"IterElem"}, emit_IterElem) /\ UNCHANGED requests
IterBasePointer == Exec({"IterBasePointer"}, emit_IterBasePointer) /\ UNCHANGED requests
TupleLower == Exec({"TupleLower"}, emit_TupleLower) /\ UNCHANGED requests
TupleLift == Exec({"TupleLift"}, emit_TupleLift) /\ UNCHANGED requests
CallWasm == Exec({"CallWasm"}, emit_CallWasm) /\ UNCHANGED requests
CallInterface == Exec({"CallInterface"}, emit_CallInterface) /\ UNCHANGED requests
Return == Exec({"Return"}, emit_Return) /\ UNCHANGED requests
HandleLower == Exec({"HandleLower"}, emit_HandleLower) /\ UNCHANGED requests
HandleLift == Exec({"HandleLift"}, emit_HandleLift) /\ UNCHANGED requests
PushBlock == Exec({"PushBlock"}, LAMBDA c, ins, operands : push_block(c))
             /\ UNCHANGED requests
FinishBlock == Exec({"FinishBlock"}, LAMBDA c, ins, operands : finish_block(c, operands))
               /\ UNCHANGED requests
ReturnPointer ==
    /\ Exec({"ReturnPointer"}, LAMBDA c, ins, operands : return_pointer(c, ins.size, ins.align))
    /\ requests' = requests \cup
            {[dir |-> direction, size |-> CurIns.size, align |-> CurIns.align]}

\* CSharp::finish, once every function is translated.
Finish ==
    /\ ~Running
    /\ ~abi.panic
    /\ ~world_src.done
    /\ abi.nfuncs >= 1
    /\ abi.ended = abi.nfuncs
    /\ world_src' = [world_src EXCEPT !.done = TRUE, !.src = finish(gen)]
    /\ UNCHANGED <<gen, direction, fb, abi, mode, requests, fl, hr, asy, fin, aw, mac>>

Next ==
    \/ NewFunction \/ EndFunction \/ Finish
    \/ GetArg \/ I32Const \/ ConstZero \/ Load \/ Store \/ Identity
    \/ EnumLower \/ EnumLift \/ VariantPayloadName
    \/ VariantLower \/ ResultLower \/ VariantLift \/ ResultLift
    \/ OptionLower \/ OptionLift
    \/ ListCanonLower \/ ListCanonLift \/ StringLower \/ StringLift
    \/ ListLower \/ ListLift \/ IterElem \/ IterBasePointer
    \/ TupleLower \/ TupleLift
    \/ CallWasm \/ CallInterface \/ Return
    \/ HandleLower \/ HandleLift
    \/ PushBlock \/ FinishBlock \/ ReturnPointer

Spec == Init /\ [][Next]_vars
SpecWorld == InitWorld /\ [][Next]_vars

(***************************************************************************)
(* Generation over inputs the backend does not support: malformed          *)
(* functions, unimplemented instructions, and a world that is asyncified   *)
(* (wit_bindgen_core::asyncify) before it is handed to the generator.      *)
(***************************************************************************)
\* wit_parser::Results
Anon(ty) == [k |-> "anon", ty |-> ty]
Named(rs) == [k |-> "named", rs |-> rs]

\* The isyswasfa types `pending` and `ready`.
PendingT == [k |-> "pending"]
ReadyT == [k |-> "ready"]

\* Asyncify::asyncify_function taken to pass named results through.
asyncify_function_lenient(function) ==
    [ panic |-> FALSE,
      new |-> << [function EXCEPT !.name = @ \o "-isysasfa"],
                 [function EXCEPT !.name = @ \o "-isysasfa-result",
                                  !.params = << <<"pending", ReadyT>> >>] >> ]

\* Asyncify::asyncify_function: the pair of functions that replaces one
\* function, or todo!() when its results are named.
asyncify_function(function) ==
    IF function.results.k = "named"
    THEN [panic |-> TRUE, new |-> <<>>]
    ELSE [ panic |-> FALSE,
           new |-> << [function EXCEPT
                          !.name = @ \o "-isysasfa",
                          !.results = Anon(ResultT(function.results.ty, PendingT))],
                      [function EXCEPT
                          !.name = @ \o "-isysasfa-result",
                          !.params = << <<"pending", ReadyT>> >>] >> ]

\* The functions asyncified.
AsyFuncs ==
    { [name |-> "f", kind |-> "Freestanding", params |-> ps, results |-> rs] :
        ps \in { <<>>, << <<"x", S32>> >> },
        rs \in { Anon(S32), Anon(Str), Named(<<>>), Named(<< <<"a", S32>> >>),
                 Named(<< <<"a", S32>>, <<"b", Str>> >>) } }

\* asyncify of a world of one function, before any function is translated.
Asyncify ==
    /\ mode = "fail"
    /\ ~asy.done
    /\ abi.nfuncs = 0
    /\ \E function \in AsyFuncs :
        LET r == asyncify_function(function)
        IN  /\ asy' = [done |-> TRUE, panic |-> r.panic, old |-> <<function>>,
                       new |-> r.new]
            /\ abi' = [abi EXCEPT !.panic = r.panic]
            /\ world_src' = IF r.panic THEN Aborted ELSE world_src
    /\ UNCHANGED <<gen, direction, fb, mode, requests, fl, hr, fin, aw, mac>>

Unsupported == Exec(UnsupportedInsts, emit_Unsupported) /\ UNCHANGED requests

InitFail == InitCommon /\ mode = "fail"

NextFail ==
    \/ Asyncify \/ NewFunction \/ EndFunction \/ Finish
    \/ GetArg \/ Load \/ Store \/ Identity
    \/ StringLower \/ StringLift
    \/ ListLower \/ ListLift \/ IterElem \/ IterBasePointer
    \/ CallWasm \/ CallInterface \/ Return
    \/ PushBlock \/ FinishBlock \/ ReturnPointer
    \/ Unsupported

SpecFail == InitFail /\ [][NextFail]_vars

\* The builder's stack is used up when the function has returned.
TypeOK ==
    /\ ~Running /\ ~abi.panic /\ abi.nfuncs >= 1 =>
        /\ abi.stack = <<>> /\ abi.saved = <<>>
        /\ fb.block_storage = <<>> /\ fb.blocks = <<>> /\ fb.payloads = <<>>
    /\ Len(fb.block_storage) <= 4

(***************************************************************************)
(* The emitted handle code at run time: the objects' handle fields, the    *)
(* locals, the rep table and the handles minted, with a log of the table's *)
(* and the host's operations.                                              *)
(***************************************************************************)
\* The object an operand denotes: a local holding a reference, or a
\* parameter object of that name.
Resolve(s, op) == IF op \in DOMAIN s.env THEN s.env[op].obj ELSE op

\* The local a lowered handle operand `((int) v)` reads.
OperandLocal(s, operand) ==
    IF \E v \in DOMAIN s.env : operand = "((int) " \o v \o ")"
    THEN CHOOSE v \in DOMAIN s.env : operand = "((int) " \o v \o ")"
    ELSE operand

Fault(s) == [s EXCEPT !.fault = TRUE]
Bind(s, name, val) == [s EXCEPT !.env = (name :> val) @@ @]
Logged(s, e) == [s EXCEPT !.log = Append(@, e)]

\* One emitted statement, run.  A cast of a null `int?` to int, a handle the
\* host never minted and a rep missing from the table throw.
RECURSIVE ExecAll(_, _)
ExecStmt(st, s) ==
    IF s.fault THEN s
    ELSE CASE st.k = "readhandle" ->
                Bind(s, st.name, s.heap[Resolve(s, st.obj)])
           [] st.k = "sethandle" ->
                [s EXCEPT !.heap = (Resolve(s, st.obj) :>
                    (IF st.rhs = "null" THEN NullV ELSE s.env[st.rhs])) @@ @]
           [] st.k = "ifnohandle" ->
                IF s.env[st.cond].has THEN s ELSE ExecAll(st.body, s)
           [] st.k = "repadd" ->
                LET rep == s.next_rep
                    o == Resolve(s, st.obj)
                IN  Logged(Bind([s EXCEPT !.table = (rep :> o) @@ @,
                                          !.next_rep = rep + 1],
                                st.name, IntV(rep)),
                           [ev |-> "add", n |-> rep, rep |-> rep, obj |-> o])
           [] st.k = "resourcenew" ->
                LET h == s.next_handle
                    rep == s.env[st.rep].v
                IN  Logged(Bind([s EXCEPT !.minted = (h :> rep) @@ @,
                                          !.next_handle = h + 1],
                                st.name, IntV(h)),
                           [ev |-> "new", n |-> h, rep |-> rep, obj |-> s.table[rep]])
           [] st.k = "callwasm" ->
                LET locals == [i \in 1..Len(st.operands) |->
                                    OperandLocal(s, st.operands[i])]
                IN  IF \E i \in 1..Len(locals) :
                            locals[i] \notin DOMAIN s.env \/ ~s.env[locals[i]].has
                    THEN Fault(s)
                    ELSE LET t == Logged(s, [ev |-> "call", n |-> Len(locals), rep |-> 0,
                                             obj |-> ""])
                         IN  IF st.assignment = "" THEN t
                             ELSE Bind(t, st.assignment, s.wasm_ret)
           [] st.k = "callinterface" ->
                IF st.assignment = "" THEN s
                ELSE Bind(s, st.assignment, ObjV(s.impl_ret))
           [] st.k = "newresource" ->
                Bind([s EXCEPT !.heap = ("n" :> NullV) @@ @], st.name, ObjV("n"))
           [] st.k = "represmove" ->
                LET h == s.env[st.arg].v
                IN  IF h \notin DOMAIN s.minted THEN Fault(s)
                    ELSE LET rep == s.minted[h]
                         IN  IF rep \notin DOMAIN s.table THEN Fault(s)
                             ELSE Logged(Bind([s EXCEPT !.table =
                                                [r \in DOMAIN @ \ {rep} |-> @[r]]],
                                              st.name, ObjV(s.table[rep])),
                                         [ev |-> "remove", n |-> h, rep |-> rep,
                                          obj |-> s.table[rep]])
           [] st.k = "repget" ->
                LET rep == s.env[st.arg].v
                IN  IF rep \notin DOMAIN s.table THEN Fault(s)
                    ELSE Logged(Bind(s, st.name, ObjV(s.table[rep])),
                                [ev |-> "get", n |-> rep, rep |-> rep,
                                 obj |-> s.table[rep]])
           [] OTHER -> s

ExecAll(stmts, s) ==
    IF stmts = <<>> THEN s ELSE ExecAll(Tail(stmts), ExecStmt(Head(stmts), s))

\* The values a run starts from.  An object x was lowered earlier: rep 1,
\* handle 5.  The parameter objects a and b of an import have a handle or
\* none; an export receives numbers: the handle 5 for an owned handle of an
\* exported resource, the rep 1 for a borrowed one.
ExportArg(t) ==
    IF t.r = "exp" THEN (IF t.k = "own" THEN IntV(5) ELSE IntV(1)) ELSE IntV(7)

\* The handle parameter i of an import arrives with: an object of an imported
\* resource always has one, an object of an exported resource may have none.
InitialHandles(i, h) ==
    IF direction = "Import" /\ i <= Len(abi.func.params)
       /\ abi.func.params[i].r = "exp"
    THEN {NullV, IntV(h)}
    ELSE {IntV(h)}

StartRun ==
    /\ mode = "handle"
    /\ ~Running
    /\ abi.nfuncs = 1
    /\ hr.pc = "off"
    /\ \E ha \in InitialHandles(1, 7), hb \in InitialHandles(2, 8),
          wr \in {IntV(5), IntV(6)}, ir \in {"r", "x"} :
        LET heap == [a |-> ha, b |-> hb, x |-> IntV(5), r |-> NullV]
            env == IF direction = "Import" THEN <<>>
                   ELSE [p0 |-> ExportArg(abi.func.params[1])]
        IN  hr' = [HandleIdle EXCEPT
                    !.pc = "run", !.heap = heap, !.init = heap, !.env = env,
                    !.table = (1 :> "x"), !.minted = (5 :> 1),
                    !.next_rep = 2, !.next_handle = 6,
                    !.wasm_ret = wr, !.impl_ret = ir]
    /\ UNCHANGED <<gen, direction, fb, abi, world_src, mode, requests, fl, asy, fin, aw, mac>>

\* The next statement of the function runs.
RunStmt ==
    /\ hr.pc = "run"
    /\ LET s == IF hr.at <= Len(fb.src) THEN ExecStmt(fb.src[hr.at], hr) ELSE hr
       IN  hr' = [s EXCEPT !.at = @ + 1,
                           !.pc = IF s.fault THEN "fault"
                                  ELSE IF hr.at >= Len(fb.src) THEN "done" ELSE "run"]
    /\ UNCHANGED <<gen, direction, fb, abi, world_src, mode, requests, fl, asy, fin, aw, mac>>

InitHandle == InitCommon /\ mode = "handle"

NextHandle ==
    \/ NewFunction \/ GetArg \/ HandleLower \/ HandleLift
    \/ CallWasm \/ CallInterface \/ Return
    \/ StartRun \/ RunStmt

SpecHandle == InitHandle /\ [][NextHandle]_vars

(***************************************************************************)
(* What the emitted dispatch does at run time.                             *)
(***************************************************************************)
\* The instruction whose handler ran last.
LastIns == abi.prog[abi.ip - 1]
After(insts) == abi.nfuncs >= 1 /\ abi.ip > 1 /\ LastIns.inst \in insts

\* The arms a C# switch runs from arm i on: an arm that ends in break stops.
RECURSIVE RunFrom(_, _)
RunFrom(sw, i) ==
    IF i > Len(sw.arms) THEN <<>>
    ELSE IF sw.arms[i].brk THEN <<i>>
    ELSE <<i>> \o RunFrom(sw, i + 1)

\* The outcomes of a dispatch: the arms run, or the throwing default.
Runs(is) == [arms |-> is, threw |-> FALSE]
Throws == [arms |-> <<>>, threw |-> TRUE]

\* What a switch does for the discriminant d.
Dispatch(sw, d) ==
    LET hits == {i \in 1..Len(sw.arms) : sw.arms[i].label = d}
    IN  IF hits = {} THEN [arms |-> <<>>, threw |-> sw.default = "throw"]
        ELSE Runs(RunFrom(sw, CHOOSE i \in hits : \A j \in hits : i <= j))

\* Discriminant values tried against a dispatch.
Discriminants == (-1 .. MaxCases + 1) \cup {255}

LiftInsts == {"VariantLift", "ResultLift", "OptionLift"}

\* C1: the dispatch emitted by a variant, result or option lift has exactly
\* the arms 0..N-1, arm i building case i (option: 0 none, 1 some; result:
\* 0 ok, 1 err); every other discriminant reaches the throwing default and
\* none is taken for case 0.
C1_LiftDispatch ==
    After(LiftInsts) =>
        LET sw == Last(fb.src)
            cs == CaseInfo(LastIns.ty)
            N == Len(cs)
        IN  /\ sw.k = "switch"
            /\ Len(sw.arms) = N
            /\ \A d \in 0..(N - 1) :
                /\ Dispatch(sw, d) = Runs(<<d + 1>>)
                /\ sw.arms[d + 1].ctor = cs[d + 1].name
            /\ \A d \in Discriminants \ (0..(N - 1)) : Dispatch(sw, d) = Throws

\* A three-case variant has been lifted.
C1_Witness ==
    /\ After({"VariantLift"})
    /\ Len(Last(fb.src).arms) = 3
    /\ Dispatch(Last(fb.src), 3) = Throws

\* The statements a step appended to the buffer being written.
Emitted == SubSeq(fb'.src, Len(fb.src) + 1, Len(fb'.src))
Doing(insts) == Running /\ CurIns.inst \in insts

\* What the code emitted for an enum lift does with the discriminant d of an
\* enum of n cases: a dispatch or a definedness assertion on the operand
\* stops it, the bare C# cast accepts any integer.
EnumLiftOutcome(stmts, op, n, d) ==
    IF \E i \in 1..Len(stmts) :
            \/ stmts[i].k = "switch" /\ stmts[i].on = op /\ Dispatch(stmts[i], d) = Throws
            \/ stmts[i].k = "assertdefined" /\ stmts[i].op = op /\ d \notin 0..(n - 1)
    THEN "fatal"
    ELSE IF d \in 0..(n - 1) THEN "case" ELSE "accepted"

\* C2: lifting an enum from a discriminant outside 0..n-1 is fatal: the code
\* emitted by EnumLift never accepts such a value.
C2_EnumLiftFatal ==
    [][Doing({"EnumLift"}) =>
        \A d \in Discriminants \ (0..(CurIns.n - 1)) :
            EnumLiftOutcome(Emitted, Last(abi.stack), CurIns.n, d) = "fatal"]_vars

LowerInsts == {"VariantLower", "ResultLower"}

\* The blocks the builder finished for the cases of the tagged value that is
\* about to be lowered or lifted, in declaration order.
CaseBlocks(n) == SubSeq(fb.blocks, Len(fb.blocks) - n + 1, Len(fb.blocks))

\* C3: lowering a variant or a result emits a dispatch on the operand's tag
\* with exactly one arm per case, labelled 0..N-1 in declaration order, the
\* arm of case i holding exactly the body of that case's block, and a
\* throwing default; one arm runs for each tag and none falls through.
C3_LowerDispatch ==
    [][Doing(LowerInsts) =>
        LET sw == Last(Emitted)
            N == Len(CurIns.cases)
            blocks == CaseBlocks(N)
        IN  /\ Emitted # <<>>
            /\ sw.k = "switch"
            /\ sw.on = Last(abi.stack) \o ".Tag"
            /\ Len(sw.arms) = N
            /\ \A i \in 1..N :
                /\ sw.arms[i].label = i - 1
                /\ sw.arms[i].body = blocks[i].body
                /\ Dispatch(sw, i - 1) = Runs(<<i>>)
            /\ \A d \in Discriminants \ (0..(N - 1)) : Dispatch(sw, d) = Throws]_vars

\* A three-case variant has been lowered, the arms' bodies differing.
C3_Witness ==
    /\ After({"VariantLower"})
    /\ Len(Last(fb.src).arms) = 3
    /\ Last(fb.src).arms[1].body = <<>>
    /\ Last(fb.src).arms[2].body # <<>>
    /\ Dispatch(Last(fb.src), 1) = Runs(<<2>>)

\* The return_pointer requests made so far in the export direction.
ExportRequests == {r \in requests : r.dir = "Export"}

\* C6: the export return area is as large and as aligned as the largest
\* export-direction return_pointer request of the world, and finish emits
\* exactly that size and alignment, in one area.
C6_ExportReturnArea ==
    LET size == MaxOf({r.size : r \in ExportRequests})
        align == MaxOf({r.align : r \in ExportRequests})
        areas == {i \in 1..Len(world_src.src) : world_src.src[i].k = "returnarea"}
    IN  /\ gen.return_area_size = size
        /\ gen.return_area_align = align
        /\ \A r \in ExportRequests : gen.return_area_size >= r.size
        /\ world_src.done /\ ExportRequests # {} =>
            /\ Cardinality(areas) = 1
            /\ \A i \in areas : /\ world_src.src[i].size = size
                                /\ world_src.src[i].align = align

\* Finish has run after a larger request followed by a smaller one.
C6_Witness ==
    /\ world_src.done
    /\ {r.size : r \in ExportRequests} = {8, 16}
    /\ {r.align : r \in ExportRequests} = {4, 8}
    /\ abi.func.result = Str
    /\ \E i \in 1..Len(world_src.src) :
        world_src.src[i].k = "returnarea" /\ world_src.src[i].size = 16

\* The allocations a sequence of statements makes for the calling
\* convention: a pinned GCHandle, or the handle InteropString.FromString pins.
Pins(stmts) == {stmts[i].name : i \in {j \in 1..Len(stmts) :
                                        stmts[j].k \in {"pin", "fromstring"}}}
Frees(stmts) == [j \in 1..Len(stmts) |-> SFree(stmts[j].address)]
AllocatingInsts == {"StringLower", "ListLower", "ListCanonLower"}

\* C7: an allocation made for the calling convention while lowering a
\* string or a list without realloc is recorded in the pending cleanup, and
\* FinishBlock and Return emit the release of each pending entry exactly
\* once: FinishBlock at the end of the block it closes, Return before the
\* return statement.
C7_AllocationsReleasedOnce ==
    [][/\ Doing(AllocatingInsts) /\ CurIns.realloc = "none" =>
            \A a \in Pins(Emitted) :
                /\ Len(fb'.cleanup) = Len(fb.cleanup) + 1
                /\ Last(fb'.cleanup).address = a
       /\ Doing({"FinishBlock"}) =>
            /\ Last(fb'.blocks).body = fb.src \o Frees(fb.cleanup)
            /\ fb'.cleanup = Last(fb.block_storage).cleanup
       /\ Doing({"Return"}) =>
            SubSeq(Emitted, 1, Len(fb.cleanup)) = Frees(fb.cleanup)]_vars

\* The part of C7 the code keeps: a pinned list buffer is recorded, and
\* every recorded entry is released exactly once.
C7_ListsReleasedOnce ==
    [][/\ Doing({"ListLower", "ListCanonLower"}) /\ CurIns.realloc = "none" =>
            \A a \in Pins(Emitted) :
                /\ Len(fb'.cleanup) = Len(fb.cleanup) + 1
                /\ Last(fb'.cleanup).address = a
       /\ Doing({"FinishBlock"}) =>
            /\ Last(fb'.blocks).body = fb.src \o Frees(fb.cleanup)
            /\ fb'.cleanup = Last(fb.block_storage).cleanup
       /\ Doing({"Return"}) =>
            SubSeq(Emitted, 1, Len(fb.cleanup)) = Frees(fb.cleanup)]_vars

\* The names a sequence of declarations declares.
Declared(stmts) == [j \in 1..Len(stmts) |-> stmts[j].name]
Top(stack, n) == SubSeq(stack, Len(stack) - n + 1, Len(stack))

\* C9: a variant or result lowering declares its flat slots once, before the
\* dispatch, one per lowered flat type and each a fresh name; every arm
\* assigns every slot, slot k from the k-th result of that case's block; the
\* operands handed on are those slot names.
C9_LowerSlots ==
    [][Doing(LowerInsts) =>
        LET nl == CurIns.nl
            N == Len(CurIns.cases)
            blocks == CaseBlocks(N)
            decls == SubSeq(Emitted, 1, nl)
            slots == Declared(decls)
            sw == Last(Emitted)
        IN  /\ Len(Emitted) = nl + 1
            /\ \A j \in 1..nl : decls[j].k = "decl" /\ slots[j] \notin fb.locals
            /\ Cardinality(Range(slots)) = nl
            /\ sw.k = "switch"
            /\ \A i \in 1..N :
                /\ Len(blocks[i].results) = nl
                /\ sw.arms[i].assignments =
                        [j \in 1..nl |-> SAssign(slots[j], blocks[i].results[j])]
            /\ Top(abi'.stack, nl) = slots]_vars

\* A variant of three flat slots has been lowered; its payload-less third
\* case fills the two payload slots with zeros.
C9_Witness ==
    /\ After({"VariantLower"})
    /\ LastIns.nl = 3
    /\ Len(Last(fb.src).arms) = 3
    /\ Last(fb.src).arms[3].assignments =
            << SAssign("lowered", "2"), SAssign("lowered0", "0"), SAssign("lowered1", "0") >>
    /\ Top(abi.stack, 3) = <<"lowered", "lowered0", "lowered1">>

\* C10: an option lowering emits, after the declarations of its flat slots,
\* one if statement of exactly two arms: the present arm under the has-value
\* test, built from the some block, and the absent arm under its negation,
\* built from the none block; both arms assign the same declared slots, the
\* same number of them and in the same order.
C10_OptionLowerArms ==
    [][Doing({"OptionLower"}) =>
        LET nl == CurIns.nl
            nb == Len(fb.blocks)
            some == fb.blocks[nb]
            none == fb.blocks[nb - 1]
            slots == Declared(SubSeq(Emitted, 1, nl))
            st == Last(Emitted)
        IN  /\ Len(Emitted) = nl + 1
            /\ Cardinality(Range(slots)) = nl
            /\ st.k = "if"
            /\ DOMAIN st = {"k", "cond", "then", "else"}
            /\ st.cond = "(" \o Last(abi.stack) \o ").HasValue"
            /\ st.then.body = some.body
            /\ st.else.body = none.body
            /\ st.then.assignments = [j \in 1..nl |-> SAssign(slots[j], some.results[j])]
            /\ st.else.assignments = [j \in 1..nl |-> SAssign(slots[j], none.results[j])]
            /\ nl >= 1 => /\ st.then.assignments[1].rhs = "1"
                          /\ st.else.assignments[1].rhs = "0"
            /\ Top(abi'.stack, nl) = slots]_vars

\* An option of a string has been lowered into three slots: the absent arm
\* fills the two payload slots with zeros.
C10_Witness ==
    /\ After({"OptionLower"})
    /\ LastIns.nl = 3
    /\ Last(fb.src).then.body # <<>>
    /\ Last(fb.src).else.assignments =
            << SAssign("lowered", "0"), SAssign("lowered0", "0"), SAssign("lowered1", "0") >>
    /\ Len(Last(fb.src).then.assignments) = 3

InitFlags ==
    /\ gen = CSharp_default
    /\ direction = "Import"
    /\ fb = FunctionBindgen_new("Freestanding", <<>>)
    /\ abi = AbiIdle
    /\ world_src = WorldIdle
    /\ asy = AsyIdle
    /\ fin = FinIdle
    /\ aw = AwIdle
    /\ mac = MacIdle
    /\ requests = {}
    /\ mode = "flags"
    /\ fl = [FlagsIdle EXCEPT !.pc = "start"]
    /\ hr = HandleIdle

FlagsUnchanged == UNCHANGED <<gen, direction, fb, abi, world_src, mode, requests, hr, asy, fin, aw, mac>>

\* InterfaceGenerator::type_flags for a flags type of n members.
TypeFlags ==
    /\ fl.pc = "start"
    /\ \E n \in 1..MaxFlags :
        fl' = [fl EXCEPT !.pc = "declared", !.n = n, !.decl = type_flags(n)]
    /\ FlagsUnchanged

\* Instruction::FlagsLower, under the builder's check that the handler
\* pushed one result per word of the representation.
FlagsLower ==
    /\ fl.pc = "declared"
    /\ LET exprs == emit_FlagsLower(fl.n, "flags")
       IN  fl' = IF Len(exprs) = FlagsRepr(fl.n).count
                 THEN [fl EXCEPT !.pc = "lowered", !.exprs = exprs]
                 ELSE [fl EXCEPT !.pc = "panic"]
    /\ FlagsUnchanged

\* The emitted lowering runs on a value of the enum.
RunLower ==
    /\ fl.pc = "lowered"
    /\ \E S \in SUBSET (SampleBits \cap (0 .. fl.n - 1)) :
        fl' = [fl EXCEPT !.pc = "ran", !.members = S,
                         !.words = [i \in 1..Len(fl.exprs) |->
                                        EvalLower(fl.exprs[i], EnumValue(fl.decl, S))]]
    /\ FlagsUnchanged

\* Instruction::FlagsLift
FlagsLift ==
    /\ fl.pc = "ran"
    /\ fl' = [fl EXCEPT !.pc = "lift", !.lift = emit_FlagsLift(fl.n, <<"w0", "w1">>)]
    /\ FlagsUnchanged

\* The emitted lifting runs on the words.
RunLift ==
    /\ fl.pc = "lift"
    /\ fl' = [fl EXCEPT !.pc = "done",
                        !.lifted = EvalLift(fl.lift[1], fl.decl, fl.words)]
    /\ FlagsUnchanged

NextFlags == TypeFlags \/ FlagsLower \/ RunLower \/ FlagsLift \/ RunLift

SpecFlags == InitFlags /\ [][NextFlags]_vars

ParamObjects == [i \in 1..Len(abi.func.params) |-> ImportNames[i]]
RunEnded == hr.pc \in {"done", "fault"}
ResourceDirection(r) == gen.resources[r]

\* C4: lowering an owned handle of an imported resource emits the read of
\* the handle and then the statement clearing the value's handle reference;
\* lowering a borrowed handle emits nothing that clears or changes a handle
\* reference the value already has: when the emitted code of an import whose
\* parameters are all borrowed runs, every parameter that came with a handle
\* still has it.
C4_OwnedClearedBorrowedKept ==
    /\ After({"HandleLower"}) /\ LastIns.own /\ ResourceDirection(LastIns.r) = "Import" =>
        LET n == Len(fb.src)
        IN  /\ n >= 2
            /\ fb.src[n - 1].k = "readhandle"
            /\ fb.src[n - 1].obj = fb.src[n].obj
            /\ fb.src[n] = [k |-> "sethandle", obj |-> fb.src[n].obj, rhs |-> "null"]
    /\ After({"HandleLower"}) /\ ~LastIns.own /\ ResourceDirection(LastIns.r) = "Import" =>
        Last(fb.src).k = "readhandle"
    /\ (/\ hr.pc # "off"
        /\ direction = "Import"
        /\ \A i \in 1..Len(abi.func.params) : abi.func.params[i].k = "borrow") =>
            \A i \in 1..Len(abi.func.params) :
                hr.init[ParamObjects[i]].has =>
                    hr.heap[ParamObjects[i]] = hr.init[ParamObjects[i]]

\* The log holds an add of object o and, later, the minting of a handle
\* bound to the rep that add returned.
AddedThenMinted(o) ==
    \E i \in 1..Len(hr.log) : \E j \in (i + 1)..Len(hr.log) :
        /\ hr.log[i].ev = "add" /\ hr.log[i].obj = o
        /\ hr.log[j].ev = "new" /\ hr.log[j].rep = hr.log[i].rep

\* C5: for an exported resource, lowering a handle, owned or borrowed, of a
\* value without a handle adds the value to the rep table and then mints a
\* handle bound to that rep; lifting an owned handle removes the table's
\* entry, lifting a borrowed handle looks it up and leaves it in the table.
C5_ExportHandleProtocol ==
    RunEnded =>
        /\ \A i \in 1..Len(abi.func.params) :
            (/\ direction = "Import"
             /\ abi.func.params[i].r = "exp"
             /\ ~hr.init[ParamObjects[i]].has)
                => AddedThenMinted(ParamObjects[i])
        /\ (direction = "Export" /\ abi.func.params[1] = Own("exp")) =>
                1 \notin DOMAIN hr.table
        /\ (direction = "Export" /\ abi.func.params[1] = Borrow("exp")) =>
                /\ 1 \in DOMAIN hr.table
                /\ \E i \in 1..Len(hr.log) : hr.log[i].ev = "get" /\ hr.log[i].rep = 1

(***************************************************************************)
(* The emitted tagged-type code at run time.  A value of a variant or a    *)
(* result is an object of the class type_variant (or the Result helper of  *)
(* finish) declares: the tag constant of case i is i, the constructor of a *)
(* case stores that tag and the payload, the accessor of a case gives the  *)
(* payload back when the tag is the case's and throws otherwise.  A value  *)
(* of an option is an Option<T> of finish.                                 *)
(***************************************************************************)
IntVal(n) == [k |-> "int", n |-> n]
Absent == [k |-> "absent"]
OptNone == [k |-> "option", has |-> FALSE, value |-> Absent]
OptSome(v) == [k |-> "option", has |-> TRUE, value |-> v]

\* The case names of a tagged type, in declaration order.
CaseNames(t) == [i \in 1..Len(CasesOf(t)) |-> CasesOf(t)[i][1]]

\* `public const {tag_type} {tag} = {i};`
TagConst(cls, name) == (CHOOSE i \in 1..Len(cls) : cls[i] = name) - 1

\* `public static {name} {case_name}({parameter})`
Construct(cls, name, arg) ==
    [k |-> "obj", cls |-> cls, tag |-> TagConst(cls, name), value |-> arg]

\* The values of a type.
RECURSIVE Values(_)
Values(t) ==
    CASE t.k = "none" -> {Absent}
      [] t.k = "s32" -> {IntVal(0), IntVal(7)}
      [] t.k = "option" -> {OptNone} \cup {OptSome(v) : v \in Values(t.t)}
      [] OTHER ->
            UNION {{Construct(CaseNames(t), CasesOf(t)[i][1], v) :
                        v \in Values(CasesOf(t)[i][2])} : i \in 1..Len(CasesOf(t))}

Value(v) == [ok |-> TRUE, v |-> v]
Thrown == [ok |-> FALSE, v |-> Absent]

\* `public {ty} As{case_name}`: the accessor named acc, on the object v.
Accessor(v, acc) ==
    IF \E i \in 1..Len(v.cls) : UpperCamel(v.cls[i]) = acc /\ v.tag = i - 1
    THEN Value(v.value) ELSE Thrown

\* An emitted expression, evaluated: a local, a constant, the payload of an
\* option, the accessor of a case.
EvalExpr(env, e) ==
    IF e \in DOMAIN env THEN Value(env[e])
    ELSE IF \E n \in 0..9 : e = ToString(n)
    THEN Value(IntVal(CHOOSE n \in 0..9 : e = ToString(n)))
    ELSE IF \E x \in DOMAIN env : e = "(" \o x \o ").Value"
    THEN Value(env[CHOOSE x \in DOMAIN env : e = "(" \o x \o ").Value"].value)
    ELSE IF \E x \in DOMAIN env :
                /\ env[x].k = "obj"
                /\ \E i \in 1..Len(env[x].cls) :
                        e = x \o ".As" \o UpperCamel(env[x].cls[i])
    THEN LET x == CHOOSE y \in DOMAIN env :
                    /\ env[y].k = "obj"
                    /\ \E i \in 1..Len(env[y].cls) :
                            e = y \o ".As" \o UpperCamel(env[y].cls[i])
             i == CHOOSE j \in 1..Len(env[x].cls) :
                    e = x \o ".As" \o UpperCamel(env[x].cls[j])
         IN  Accessor(env[x], UpperCamel(env[x].cls[i]))
    ELSE Thrown

Assigned(s, name, r) ==
    IF r.ok THEN [s EXCEPT !.env = (name :> r.v) @@ @] ELSE [s EXCEPT !.threw = TRUE]

RECURSIVE RunStmts(_, _)
RECURSIVE RunArms(_, _, _)

\* One arm of a lowering: the payload binding, the block, the assignments.
ArmStmts(arm) == arm.payload \o arm.body \o arm.assignments

\* The arms idxs of the dispatch sw, one after the other.
RunArms(sw, idxs, s) ==
    IF idxs = <<>> \/ s.threw THEN s
    ELSE LET arm == sw.arms[Head(idxs)]
             t == IF "assignments" \in DOMAIN arm
                  THEN RunStmts(ArmStmts(arm), s)
                  ELSE LET b == RunStmts(arm.body, s)
                           a == IF arm.arg = "" THEN Value(Absent)
                                ELSE EvalExpr(b.env, arm.arg)
                       IN  IF b.threw THEN b
                           ELSE IF ~a.ok THEN [b EXCEPT !.threw = TRUE]
                           ELSE Assigned(b, arm.assign.lhs,
                                    Value(IF sw.ty.k = "option"
                                          THEN (IF arm.ctor = "none" THEN OptNone
                                                ELSE OptSome(a.v))
                                          ELSE Construct(CaseNames(sw.ty), arm.ctor, a.v)))
         IN  RunArms(sw, Tail(idxs), t)

\* One emitted statement, run on the locals.
RunLocal(st, s) ==
    IF s.threw THEN s
    ELSE CASE st.k = "var" -> Assigned(s, st.name, EvalExpr(s.env, st.rhs))
           [] st.k = "assign" -> Assigned(s, st.lhs, EvalExpr(s.env, st.rhs))
           [] st.k = "if" ->
                LET x == CHOOSE y \in DOMAIN s.env : st.cond = "(" \o y \o ").HasValue"
                IN  IF s.env[x].has THEN RunStmts(ArmStmts(st.then), s)
                    ELSE RunStmts(ArmStmts(st.else), s)
           [] st.k = "switch" ->
                LET d == IF \E y \in DOMAIN s.env : st.on = y \o ".Tag"
                         THEN Value(IntVal(s.env[CHOOSE y \in DOMAIN s.env :
                                                    st.on = y \o ".Tag"].tag))
                         ELSE EvalExpr(s.env, st.on)
                    hit == Dispatch(st, d.v.n)
                IN  IF ~d.ok \/ hit.threw THEN [s EXCEPT !.threw = TRUE]
                    ELSE RunArms(st, hit.arms, s)
           [] OTHER -> s

RunStmts(stmts, s) ==
    IF stmts = <<>> THEN s ELSE RunStmts(Tail(stmts), RunLocal(Head(stmts), s))

\* The emitted statements of the round trip run on a value of the argument.
RunRoundTrip ==
    /\ mode = "round"
    /\ ~Running
    /\ abi.nfuncs = 1
    /\ hr.pc = "off"
    /\ \E v \in Values(abi.func.params[1]) :
        LET s == RunStmts(fb.src, [env |-> (fb.params[1] :> v), threw |-> FALSE])
        IN  hr' = [HandleIdle EXCEPT !.pc = "done", !.init = (fb.params[1] :> v),
                                     !.env = s.env, !.fault = s.threw]
    /\ UNCHANGED <<gen, direction, fb, abi, world_src, mode, requests, fl, asy, fin, aw, mac>>

InitRound == InitCommon /\ mode = "round"

NextRound ==
    \/ NewFunction \/ GetArg \/ I32Const \/ ConstZero \/ Identity
    \/ VariantPayloadName \/ VariantLower \/ ResultLower \/ VariantLift \/ ResultLift
    \/ OptionLower \/ OptionLift \/ PushBlock \/ FinishBlock
    \/ RunRoundTrip

SpecRound == InitRound /\ [][NextRound]_vars

\* The tag of a value as its lowering gives it: the case's index, and for an
\* option 1 when it has a value and 0 when not.
TagOfValue(v) == IF v.k = "option" THEN (IF v.has THEN 1 ELSE 0) ELSE v.tag

\* C11: for every value of a variant, result or option type, the emitted
\* lowering puts the index of the value's active case in the discriminant
\* slot, and the emitted lifting of the lowered slots ends without a throw in
\* a value equal to the original: same active case, same payload.
C11_TaggedRoundTrip ==
    (mode = "round" /\ hr.pc = "done") =>
        LET v == hr.init[fb.params[1]]
        IN  /\ ~hr.fault
            /\ hr.env[fb.src[1].name] = IntVal(TagOfValue(v))
            /\ Last(abi.stack) \in DOMAIN hr.env
            /\ hr.env[Last(abi.stack)] = v

\* The third case of a three-case variant, with its payload 7, has made the
\* round trip.
C11_Witness ==
    /\ mode = "round" /\ hr.pc = "done" /\ ~hr.fault
    /\ hr.init[fb.params[1]] = Construct(<<"c0", "c1", "c2">>, "c2", IntVal(7))
    /\ hr.env[fb.src[1].name] = IntVal(2)
    /\ hr.env[Last(abi.stack)].value = IntVal(7)

\* The drop statements among a sequence of statements.
Drops(stmts) == {j \in 1..Len(stmts) : stmts[j].k = "raw"}

\* C12: lifting a borrowed handle of an imported resource records one drop
\* obligation and nothing else records or removes one; CallInterface emits
\* the call statement and then every pending obligation, once each and in
\* the order recorded, and leaves none pending; Return finds none pending
\* and emits no drop, so every drop stands between the call and the return.
C12_DropsFlushed ==
    [][/\ Doing({"HandleLift"}) =>
            fb'.resource_drops =
                IF ~CurIns.own /\ ResourceDirection(CurIns.r) = "Import"
                THEN Append(fb.resource_drops, Last(abi'.stack) \o ".Dispose();")
                ELSE fb.resource_drops
       /\ Doing({"CallInterface"}) =>
            /\ Emitted # <<>>
            /\ Emitted[1].k = "callinterface"
            /\ Tail(Emitted) = [j \in 1..Len(fb.resource_drops) |->
                                    SRaw(fb.resource_drops[j])]
            /\ fb'.resource_drops = <<>>
       /\ Doing({"Return"}) =>
            /\ fb.resource_drops = <<>>
            /\ Drops(Emitted) = {}
       /\ ~Doing({"HandleLift", "CallInterface"}) =>
            fb'.resource_drops = fb.resource_drops]_vars

\* An export of two borrowed handles of an imported resource has made its
\* call: the two drops follow the call statement.
C12_Witness ==
    /\ After({"CallInterface"})
    /\ Len(fb.src) >= 3
    /\ fb.src[Len(fb.src) - 2].k = "callinterface"
    /\ fb.src[Len(fb.src) - 1] = SRaw("resource.Dispose();")
    /\ fb.src[Len(fb.src)] = SRaw("resource0.Dispose();")
    /\ fb.resource_drops = <<>>

\* The argument list of a call: every argument in parentheses, a comma and a
\* space between two neighbours, nothing before the first or after the last.
RECURSIVE ArgumentList(_)
ArgumentList(args) ==
    IF args = <<>> THEN ""
    ELSE IF Len(args) = 1 THEN "(" \o args[1] \o ")"
    ELSE "(" \o args[1] \o "), " \o ArgumentList(Tail(args))

\* C13: the call statement of CallInterface takes operand 0 as the receiver
\* of a method and passes the operands after it; a free function, a static
\* function and a constructor pass every operand; the arguments stand in the
\* operands' order, each once, separated by single commas, and a method
\* whose only operand is the receiver gets an empty argument list.
C13_CallArguments ==
    [][Doing({"CallInterface"}) =>
        LET operands == Top(abi.stack, CurIns.nops)
            call == Emitted[1]
        IN  /\ call.k = "callinterface"
            /\ fb.kind = "Method" =>
                /\ call.target = operands[1]
                /\ call.oper = ArgumentList(Tail(operands))
            /\ fb.kind # "Method" => call.oper = ArgumentList(operands)]_vars

\* A method of two operands has made its call: the receiver is the target,
\* the other operand the only argument.
C13_Witness ==
    /\ After({"CallInterface"})
    /\ fb.kind = "Method"
    /\ LastIns.nops = 2
    /\ \E j \in 1..Len(fb.src) :
        /\ fb.src[j].k = "callinterface"
        /\ fb.src[j].target = "resource"
        /\ fb.src[j].oper = "(p1)"

(***************************************************************************)
(* C14.  CallWasm and the number of results of the core signature.         *)
(***************************************************************************)
\* The operands a step of the builder leaves on the stack in place of the
\* ones the instruction popped.
Pushed == SubSeq(abi'.stack, Len(abi.stack) - CurIns.nops + 1, Len(abi'.stack))

\* The step in which import is handed a function whose core signature has
\* more than one result.
ImportOfMultiResult ==
    /\ abi'.nfuncs = abi.nfuncs + 1
    /\ abi'.func.dir = "Import"
    /\ SigResults(abi'.func, abi'.bad) > 1

\* C14: CallWasm pushes exactly one operand, a name the allocator had not
\* given out before and that the call statement assigns, when the core
\* signature has one result, and pushes none when it has no result; a core
\* signature with more than one result stops generation: import panics
\* before any instruction is translated, no statement is emitted, no operand
\* is produced, and no step follows.
C14_CallWasmResults ==
    [][ /\ Doing({"CallWasm"}) /\ CurIns.nres = 1 =>
            /\ ~abi'.panic
            /\ Len(Pushed) = 1
            /\ Pushed[1] \notin fb.locals
            /\ Pushed[1] \in fb'.locals
            /\ Len(Emitted) = 1
            /\ Emitted[1].k = "callwasm"
            /\ Emitted[1].assignment = Pushed[1]
        /\ Doing({"CallWasm"}) /\ CurIns.nres = 0 =>
            /\ ~abi'.panic
            /\ Pushed = <<>>
            /\ Len(Emitted) = 1
            /\ Emitted[1].k = "callwasm"
            /\ Emitted[1].assignment = ""
            /\ fb'.locals = fb.locals
        /\ Doing({"CallWasm"}) /\ CurIns.nres > 1 =>
            /\ abi'.panic
            /\ fb' = fb
        /\ ImportOfMultiResult =>
            /\ abi'.panic
            /\ abi'.prog = <<>>
            /\ abi'.stack = <<>>
            /\ fb'.src = <<>>
            /\ world_src' = Aborted
        /\ ~abi.panic ]_vars

\* An import of two core results was handed over and generation has stopped,
\* after an import of one core result had its call translated.
C14_Witness ==
    /\ mode = "fail"
    /\ abi.panic
    /\ abi.bad = "multi_result"
    /\ abi.func.dir = "Import"
    /\ abi.nfuncs = 2
    /\ abi.funcs[1].dir = "Import"
    /\ abi.funcs[1].result = S32
    /\ abi.ended = 1

(***************************************************************************)
(* C15.  What a return_pointer request changes, by direction.              *)
(***************************************************************************)
\* C15: a return_pointer request in an import takes its storage from a
\* return area declared in the function itself, leaves the module-wide
\* export area size, alignment and flag as they were, and raises the
\* function's own import area size and alignment to at least the request; a
\* request in an export takes the shared InteropReturnArea, raises the
\* module-wide size and alignment, sets the flag, and leaves the function's
\* import area size and alignment as they were.
C15_ReturnAreaScope ==
    [][ Doing({"ReturnPointer"}) =>
          LET size == CurIns.size
              align == CurIns.align
              ptr == Emitted[Len(Emitted)].name
          IN  /\ ptr \notin fb.locals
              /\ IF direction = "Import"
                 THEN /\ gen' = gen
                      /\ fb'.import_return_pointer_area_size
                           = Max2(fb.import_return_pointer_area_size, size)
                      /\ fb'.import_return_pointer_area_align
                           = Max2(fb.import_return_pointer_area_align, align)
                      /\ Len(Emitted) = 2
                      /\ Emitted[1].k = "importarea"
                      /\ Emitted[2] = SVar(ptr, Emitted[1].name \o ".AddressOfReturnArea()")
                 ELSE /\ gen'.return_area_size = Max2(gen.return_area_size, size)
                      /\ gen'.return_area_align = Max2(gen.return_area_align, align)
                      /\ gen'.needs_export_return_area
                      /\ fb'.import_return_pointer_area_size
                           = fb.import_return_pointer_area_size
                      /\ fb'.import_return_pointer_area_align
                           = fb.import_return_pointer_area_align
                      /\ Emitted = << SVar(ptr,
                           "InteropReturnArea.returnArea.AddressOfReturnArea()") >> ]_vars

\* An import has just made a request in a world where an export had made a
\* larger one before: the shared area is still the export's.
C15_Witness ==
    /\ mode = "world"
    /\ After({"ReturnPointer"})
    /\ direction = "Import"
    /\ gen.needs_export_return_area
    /\ fb.import_return_pointer_area_size > 0
    /\ gen.return_area_size > fb.import_return_pointer_area_size
    /\ \E r \in requests : r.dir = "Export"

(***************************************************************************)
(* C16.  The names declared in the code of one function.                   *)
(***************************************************************************)
\* The local names a body declares, at every nesting level, in textual
\* order: the var and typed declarations, the loop indices, and the
\* `out int length{result_var}` of InteropString.FromString.
RECURSIVE Decls(_)
RECURSIVE DeclsOf(_)
RECURSIVE ArmDecls(_)
Decls(stmts) == Concat([j \in 1..Len(stmts) |-> DeclsOf(stmts[j])])

DeclsOf(s) ==
    CASE s.k \in {"decl", "var", "importarea", "newbuf", "pin", "stackalloc",
                  "copyin", "newlist", "readhandle", "repadd", "newresource",
                  "represmove", "repget"} -> << s.name >>
      [] s.k = "fromstring" -> << s.name, "length" \o s.arg >>
      [] s.k \in {"callwasm", "callinterface"} ->
            IF s.assignment = "" THEN <<>> ELSE << s.assignment >>
      [] s.k = "for" -> << s.index >> \o Decls(s.head) \o Decls(s.body) \o Decls(s.tail)
      [] s.k = "switch" -> Concat([i \in 1..Len(s.arms) |-> ArmDecls(s.arms[i])])
      [] s.k = "if" -> ArmDecls(s.then) \o ArmDecls(s.else)
      [] s.k = "ifnohandle" -> Decls(s.body)
      [] OTHER -> <<>>

ArmDecls(a) ==
    (IF "payload" \in DOMAIN a THEN Decls(a.payload) ELSE <<>>) \o Decls(a.body)

NoDuplicates(names) ==
    \A i, j \in 1..Len(names) : names[i] = names[j] => i = j

\* The function has been translated to its end.
Translated == abi.nfuncs >= 1 /\ ~Running /\ ~abi.panic

\* C16: in the code emitted for one function no two declarations, at any
\* nesting level, declare the same name, and no declaration declares the
\* name of one of the function's parameters.
C16_NoNameCollision ==
    Translated =>
        /\ NoDuplicates(Decls(fb.src))
        /\ Range(Decls(fb.src)) \cap Range(fb.params) = {}

\* The part of C16 that is about the temporaries alone.
C16_TemporariesDistinct == Translated => NoDuplicates(Decls(fb.src))

(***************************************************************************)
(* C17.  The loops of a general list.  A statement of kind "for" stands    *)
(* for `for (int index = 0; index < bound; ++index) { head body tail }`.   *)
(***************************************************************************)
\* The stores of a body at every nesting level but inside its loops.
RECURSIVE Stores(_)
RECURSIVE StoresOf(_)
Stores(stmts) == UNION {StoresOf(stmts[j]) : j \in 1..Len(stmts)}

StoresOf(s) ==
    CASE s.k = "store" -> {s}
      [] s.k = "switch" ->
            UNION {Stores(s.arms[i].body) : i \in 1..Len(s.arms)}
      [] s.k = "if" -> Stores(s.then.body) \cup Stores(s.else.body)
      [] OTHER -> {}

Loops(stmts) == {j \in 1..Len(stmts) : stmts[j].k = "for"}

\* C17: lowering a general list emits exactly one loop, over the indices
\* below the list's count; the loop binds the element at the index to the
\* block's element name and the block's base name to
\* address + index * element_size, holds the block's body once, and the body
\* writes the element at that base name.  Lifting emits exactly one loop,
\* over the indices below the length; the loop binds the block's base name
\* to address + index * element_size, holds the block's body once, and then
\* appends the block's one result to the list that is the lifted value.
C17_ListLoops ==
    [][ /\ Doing({"ListLower"}) =>
            LET block == Last(fb.blocks)
                list == Last(abi.stack)
                n == Len(Emitted)
                loop == Emitted[n]
                address == Emitted[n - 1].name
            IN  /\ ~abi'.panic
                /\ Loops(Emitted) = {n}
                /\ loop.bound = list \o ".Count()"
                /\ loop.head =
                    << SVar(block.element, list \o "[" \o loop.index \o "]"),
                       SVar(block.base,
                            "(int)" \o address \o " + (" \o loop.index \o " * "
                            \o ToString(ElemSize(CurIns.ty)) \o ")") >>
                /\ loop.body = block.body
                /\ loop.tail = <<>>
                /\ Stores(block.body) # {}
                /\ \A s \in Stores(block.body) : s.addr = block.base
                /\ fb'.blocks = Front(fb.blocks)
                /\ Top(abi'.stack, 2) = << "(int)" \o address, list \o ".Count()" >>
        /\ Doing({"ListLift"}) /\ Len(Last(fb.blocks).results) = 1 =>
            LET block == Last(fb.blocks)
                address == Top(abi.stack, 2)[1]
                length == Top(abi.stack, 2)[2]
                array == Last(abi'.stack)
                loop == Emitted[2]
            IN  /\ ~abi'.panic
                /\ Len(Emitted) = 2
                /\ Emitted[1] = [k |-> "newlist", name |-> array, length |-> length]
                /\ Loops(Emitted) = {2}
                /\ loop.bound = length
                /\ loop.head =
                    << SVar(block.base,
                            address \o " + (" \o loop.index \o " * "
                            \o ToString(ElemSize(CurIns.ty)) \o ")") >>
                /\ loop.body = block.body
                /\ loop.tail = << [k |-> "add", name |-> array,
                                   val |-> block.results[1]] >>
                /\ fb'.blocks = Front(fb.blocks) ]_vars

\* A list of lists has been lowered, and a list of lists has been lifted:
\* the loop of the outer list holds the loop of the inner one.
C17_Witness ==
    /\ After({"ListLower", "ListLift"})
    /\ Loops(fb.src) # {}
    /\ LET loop == fb.src[Len(fb.src)]
       IN  /\ loop.k = "for"
           /\ Loops(loop.body) # {}
           /\ LastIns.inst = "ListLift" => loop.tail # <<>>

(***************************************************************************)
(* C18.  The module-wide accumulators over a whole world.                  *)
(***************************************************************************)
\* FunctionBindgen::emit and the Bindgen methods: the handler of an
\* instruction.
Handler(c, ins, operands) ==
    CASE ins.inst = "GetArg" -> emit_GetArg(c, ins, operands)
      [] ins.inst = "I32Const" -> emit_I32Const(c, ins, operands)
      [] ins.inst = "ConstZero" -> emit_ConstZero(c, ins, operands)
      [] ins.inst \in {"I32Load", "PointerLoad", "LengthLoad", "I32Load8U"} ->
            emit_Load(c, ins, operands)
      [] ins.inst \in {"I32Store", "PointerStore", "LengthStore", "I32Store8"} ->
            emit_Store(c, ins, operands)
      [] ins.inst \in {"I32FromS32", "S32FromI32", "I64FromS64", "S64FromI64"} ->
            emit_Identity(c, ins, operands)
      [] ins.inst = "EnumLower" -> emit_EnumLower(c, ins, operands)
      [] ins.inst = "EnumLift" -> emit_EnumLift(c, ins, operands)
      [] ins.inst = "VariantPayloadName" -> emit_VariantPayloadName(c, ins, operands)
      [] ins.inst = "VariantLower" -> emit_VariantLower(c, ins, operands)
      [] ins.inst = "ResultLower" -> emit_ResultLower(c, ins, operands)
      [] ins.inst = "VariantLift" -> emit_VariantLift(c, ins, operands)
      [] ins.inst = "ResultLift" -> emit_ResultLift(c, ins, operands)
      [] ins.inst = "OptionLower" -> emit_OptionLower(c, ins, operands)
      [] ins.inst = "OptionLift" -> emit_OptionLift(c, ins, operands)
      [] ins.inst = "ListCanonLower" -> emit_ListCanonLower(c, ins, operands)
      [] ins.inst = "ListCanonLift" -> emit_ListCanonLift(c, ins, operands)
      [] ins.inst = "StringLower" -> emit_StringLower(c, ins, operands)
      [] ins.inst = "StringLift" -> emit_StringLift(c, ins, operands)
      [] ins.inst = "ListLower" -> emit_ListLower(c, ins, operands)
      [] ins.inst = "ListLift" -> emit_ListLift(c, ins, operands)
      [] ins.inst = "IterElem" -> emit_IterElem(c, ins, operands)
      [] ins.inst = "IterBasePointer" -> emit_IterBasePointer(c, ins, operands)
      [] ins.inst = "TupleLower" -> emit_TupleLower(c, ins, operands)
      [] ins.inst = "TupleLift" -> emit_TupleLift(c, ins, operands)
      [] ins.inst = "CallWasm" -> emit_CallWasm(c, ins, operands)
      [] ins.inst = "CallInterface" -> emit_CallInterface(c, ins, operands)
      [] ins.inst = "Return" -> emit_Return(c, ins, operands)
      [] ins.inst = "HandleLower" -> emit_HandleLower(c, ins, operands)
      [] ins.inst = "HandleLift" -> emit_HandleLift(c, ins, operands)
      [] ins.inst = "PushBlock" -> push_block(c)
      [] ins.inst = "FinishBlock" -> finish_block(c, operands)
      [] ins.inst = "ReturnPointer" -> return_pointer(c, ins.size, ins.align)
      [] OTHER -> emit_Unsupported(c, ins, operands)

\* abi::call over the whole stream of a function, from instruction ip on.
RECURSIVE RunStream(_, _, _, _)
RunStream(c, prog, ip, st) ==
    IF ip > Len(prog) THEN [f |-> c.f, g |-> c.g, panic |-> FALSE]
    ELSE LET ins == prog[ip]
             st1 == ApplyOps(st, ins.pre)
             n == Len(st1.stack)
             out == Handler(c, ins, SubSeq(st1.stack, n - ins.nops + 1, n))
             st2 == ApplyOps([stack |-> SubSeq(st1.stack, 1, n - ins.nops)
                                        \o out.results,
                              saved |-> st1.saved], ins.post)
         IN  IF out.panic THEN [f |-> c.f, g |-> c.g, panic |-> TRUE]
             ELSE RunStream([c EXCEPT !.f = out.f, !.g = out.g], prog, ip + 1, st2)

\* InterfaceGenerator::import / export of one well-formed function, from
\* the accumulators g: the accumulators after it and the body written.
Translate(g, func) ==
    LET r == RunStream([f |-> FunctionBindgen_new(func.kind, ParamsOf(func, ImportNames)),
                        g |-> type_names(g, NamedBefore(func)),
                        dir |-> func.dir],
                       CallStream(func), 1, [stack |-> <<>>, saved |-> <<>>])
    IN  [g |-> type_names(r.g, NamedAfter(func)), src |-> r.f.src]

\* The accumulators after the functions funcs, translated in that order.
RECURSIVE GenAfter(_, _)
GenAfter(g, funcs) ==
    IF funcs = <<>> THEN g ELSE GenAfter(Translate(g, Head(funcs)).g, Tail(funcs))

Orders(n) == {p \in [1..n -> 1..n] : \A i, j \in 1..n : p[i] = p[j] => i = j}

\* g2 has everything g1 has.
Grown(g1, g2) ==
    /\ g2.return_area_size >= g1.return_area_size
    /\ g2.return_area_align >= g1.return_area_align
    /\ g1.tuple_counts \subseteq g2.tuple_counts
    /\ g1.needs_result => g2.needs_result
    /\ g1.needs_option => g2.needs_option
    /\ g1.needs_interop_string => g2.needs_interop_string
    /\ g1.needs_export_return_area => g2.needs_export_return_area
    /\ g1.needs_rep_table => g2.needs_rep_table

\* C18: no step of the translation lowers the export return-area size or
\* alignment, removes a tuple arity, or clears a needs flag; and when finish
\* takes the accumulators, they are what translating the same functions in
\* any other order would have left.
C18_Accumulators ==
    [][ /\ Grown(gen, gen')
        /\ (~world_src.done /\ world_src'.done) =>
            \A p \in Orders(Len(abi.funcs)) :
                GenAfter(CSharp_default,
                         [i \in 1..Len(abi.funcs) |-> abi.funcs[p[i]]]) = gen ]_vars

\* finish has run on a world of two functions that each added to the
\* accumulators what the other did not: two tuple arities, or a tuple arity
\* and the export return area.
C18_Witness ==
    /\ mode = "world"
    /\ world_src.done
    /\ Len(abi.funcs) >= 2
    /\ Translate(CSharp_default, abi.funcs[1]).g # gen
    /\ Translate(CSharp_default, abi.funcs[2]).g # gen
    /\ gen.tuple_counts # {}
    /\ \/ Cardinality(gen.tuple_counts) = 2
       \/ gen.needs_export_return_area

(***************************************************************************)
(* C19.  What is left of a world when one of its functions is malformed.   *)
(***************************************************************************)
\* C19: whatever happens to a malformed function, the output holds exactly
\* the functions that were translated to their end, each with the body its
\* translation alone produces, and nothing of the function that failed.
C19_FailureIsolated ==
    mode = "fail" =>
        /\ Len(world_src.funcs) = abi.ended
        /\ \A i \in 1..abi.ended :
            /\ world_src.funcs[i].func = abi.funcs[i]
            /\ world_src.funcs[i].src = Translate(CSharp_default, abi.funcs[i]).src

(***************************************************************************)
(* C20.  Instructions and shapes the generator does not support.           *)
(***************************************************************************)
\* The step in which a function is asyncified.
Asyncifying == ~asy.done /\ asy'.done

\* C20: translating Malloc, GuestDeallocate, GuestDeallocateString,
\* GuestDeallocateVariant or GuestDeallocateList panics, and so does
\* asyncifying a function with several named results: the step emits
\* nothing, pushes nothing and yields no function, generation is stopped by
\* it, and no step follows a stop.
C20_HardStops ==
    [][ /\ Doing(UnsupportedInsts) =>
            /\ abi'.panic
            /\ fb' = fb
            /\ gen' = gen
            /\ abi'.stack = abi.stack
            /\ abi'.ip = abi.ip
            /\ world_src' = Aborted
        /\ Asyncifying /\ asy'.old[1].results.k = "named"
           /\ Len(asy'.old[1].results.rs) >= 2 =>
            /\ asy'.panic
            /\ asy'.new = <<>>
            /\ abi'.panic
            /\ world_src' = Aborted
        /\ Asyncifying /\ asy'.old[1].results.k = "anon" =>
            /\ ~asy'.panic
            /\ Len(asy'.new) = 2
        /\ ~abi.panic ]_vars

\* Generation has stopped at a GuestDeallocateList in the second function
\* of a world that had been asyncified.
C20_Witness ==
    /\ mode = "fail"
    /\ abi.panic
    /\ asy.done
    /\ ~asy.panic
    /\ abi.nfuncs = 2
    /\ abi.bad = "GuestDeallocateList"
    /\ abi.ip <= Len(abi.prog)
    /\ abi.prog[abi.ip].inst = "GuestDeallocateList"

\* Asyncifying a function with two named results has stopped everything.
C20_WitnessNamed ==
    /\ asy.done
    /\ asy.panic
    /\ abi.panic
    /\ Len(asy.old[1].results.rs) = 2

(***************************************************************************)
(* C26.  The scope opened by PushBlock and closed by FinishBlock.          *)
(***************************************************************************)
\* C26: PushBlock sets the statement buffer and the pending cleanup aside,
\* with two names the allocator had not given out, and starts both empty;
\* no instruction in between touches what was set aside or removes a
\* statement from the buffer; FinishBlock puts the buffer and the pending
\* cleanup set aside by the matching PushBlock back exactly, and yields a
\* Block whose body is the statements emitted since then followed by the
\* releases of the block's own cleanup, whose results are the operands of
\* FinishBlock, and whose element and base names are those of that
\* PushBlock.
C26_BlockScope ==
    [][ /\ Doing({"PushBlock"}) =>
            LET top == Last(fb'.block_storage)
            IN  /\ Front(fb'.block_storage) = fb.block_storage
                /\ top.body = fb.src
                /\ top.cleanup = fb.cleanup
                /\ top.element \notin fb.locals
                /\ top.base \notin fb.locals
                /\ top.element # top.base
                /\ {top.element, top.base} \subseteq fb'.locals
                /\ fb'.src = <<>>
                /\ fb'.cleanup = <<>>
                /\ fb'.blocks = fb.blocks
        /\ Doing({"FinishBlock"}) =>
            LET top == Last(fb.block_storage)
            IN  /\ fb'.block_storage = Front(fb.block_storage)
                /\ fb'.src = top.body
                /\ fb'.cleanup = top.cleanup
                /\ Front(fb'.blocks) = fb.blocks
                /\ Last(fb'.blocks) =
                    [ body |-> fb.src \o Frees(fb.cleanup),
                      results |-> Top(abi.stack, CurIns.nops),
                      element |-> top.element,
                      base |-> top.base ]
        /\ Running /\ ~Doing({"PushBlock", "FinishBlock"}) /\ ~abi'.panic =>
            /\ fb'.block_storage = fb.block_storage
            /\ Len(fb'.src) >= Len(fb.src)
            /\ SubSeq(fb'.src, 1, Len(fb.src)) = fb.src ]_vars

\* A block has been finished inside another block that is still open, with
\* statements in the inner body and statements set aside by the outer one.
C26_Witness ==
    /\ After({"FinishBlock"})
    /\ Len(fb.block_storage) >= 1
    /\ Last(fb.blocks).body # <<>>
    /\ Last(fb.block_storage).body # <<>>

(***************************************************************************)
(* C27.  The state of the FunctionBindgen at the Return of a function.     *)
(***************************************************************************)
\* Nothing is open or waiting in the FunctionBindgen.
Quiescent ==
    /\ fb.block_storage = <<>>
    /\ fb.blocks = <<>>
    /\ fb.payloads = <<>>
    /\ fb.resource_drops = <<>>

\* C27: Return is the last instruction of the stream and the only Return in
\* it, and both when it is executed and after it no block is open, no
\* finished block is waiting for its instruction, no payload name is
\* waiting, and no resource drop is pending.
C27_QuiescentAtReturn ==
    /\ Doing({"Return"}) =>
        /\ abi.ip = Len(abi.prog)
        /\ \A i \in 1..Len(abi.prog) : abi.prog[i].inst = "Return" => i = abi.ip
        /\ Quiescent
    /\ After({"Return"}) => ~Running /\ Quiescent

\* The Return of an export that lifted a borrowed handle and lowered a
\* variant is about to be executed: blocks, payload names and a resource
\* drop have all come and gone.
C27_Witness ==
    /\ Doing({"Return"})
    /\ \E i \in 1..Len(abi.prog) : abi.prog[i].inst = "VariantPayloadName"
    /\ \E i \in 1..Len(abi.prog) : abi.prog[i].inst = "FinishBlock"
    /\ \E i \in 1..Len(fb.src) : fb.src[i].k = "raw"

(***************************************************************************)
(* C28.  Where a pinned buffer is released, relative to the call.          *)
(***************************************************************************)
\* The statements of a body in textual order, those nested in loops, arms
\* and branches included.
RECURSIVE Flatten(_)
RECURSIVE FlattenOf(_)
RECURSIVE FlattenArm(_)
Flatten(stmts) == Concat([j \in 1..Len(stmts) |-> FlattenOf(stmts[j])])

FlattenOf(s) ==
    CASE s.k = "for" -> Flatten(s.head) \o Flatten(s.body) \o Flatten(s.tail)
      [] s.k = "switch" -> Concat([i \in 1..Len(s.arms) |-> FlattenArm(s.arms[i])])
      [] s.k = "if" -> FlattenArm(s.then) \o FlattenArm(s.else)
      [] s.k = "ifnohandle" -> Flatten(s.body)
      [] OTHER -> << s >>

FlattenArm(a) ==
    (IF "payload" \in DOMAIN a THEN Flatten(a.payload) ELSE <<>>)
    \o Flatten(a.body)
    \o (IF "assignments" \in DOMAIN a THEN a.assignments ELSE <<>>)

\* C28: in the code of an import, every statement that releases a buffer
\* pinned before the call to the imported function comes after that call,
\* wherever the buffer was pinned.
C28_NoReleaseBeforeUse ==
    Translated /\ direction = "Import" =>
        LET code == Flatten(fb.src)
        IN  \A c \in 1..Len(code) : code[c].k = "callwasm" =>
            \A p \in 1..(c - 1) : code[p].k = "pin" =>
            \A r \in 1..Len(code) :
                code[r].k = "free" /\ code[r].name = code[p].name => r > c

\* The same for the buffers pinned outside every block.
C28_TopLevelReleasedAfter ==
    Translated /\ direction = "Import" =>
        \A c \in 1..Len(fb.src) : fb.src[c].k = "callwasm" =>
        \A p \in 1..(c - 1) : fb.src[p].k = "pin" =>
            /\ \E r \in 1..Len(fb.src) :
                fb.src[r].k = "free" /\ fb.src[r].name = fb.src[p].name
            /\ \A r \in 1..Len(fb.src) :
                fb.src[r].k = "free" /\ fb.src[r].name = fb.src[p].name => r > c

(***************************************************************************)
(* C29.  The temporary of a handle lowering.                               *)
(***************************************************************************)
\* C29: a handle lowering declares a fresh temporary holding the operand's
\* handle; the operand it hands on and the has-value test it emits name that
\* same temporary.
C29_HandleLowerOwnTemporary ==
    [][ Doing({"HandleLower"}) =>
          LET handle == Emitted[1].name
          IN  /\ Emitted[1].k = "readhandle"
              /\ handle \notin fb.locals
              /\ Last(abi'.stack) = "((int) " \o handle \o ")"
              /\ \A i \in 1..Len(Emitted) :
                    Emitted[i].k = "ifnohandle" => Emitted[i].cond = handle ]_vars

\* The same for the first handle lowering of a function only.
C29_FirstHandleLower ==
    [][ Doing({"HandleLower"}) /\ "handle" \notin fb.locals =>
          LET handle == Emitted[1].name
          IN  /\ Emitted[1].k = "readhandle"
              /\ Last(abi'.stack) = "((int) " \o handle \o ")"
              /\ \A i \in 1..Len(Emitted) :
                    Emitted[i].k = "ifnohandle" => Emitted[i].cond = handle ]_vars

(***************************************************************************)
(* C22.  The module-wide helpers of the world file.                        *)
(***************************************************************************)
\* A type the backend names mentions a type of kind k: naming descends into
\* tuples, options, results and lists.
RECURSIVE Mentions(_, _)
Mentions(ty, k) ==
    \/ ty.k = k
    \/ ty.k = "tuple" /\ \E i \in 1..Len(ty.types) : Mentions(ty.types[i], k)
    \/ ty.k \in {"option", "list"} /\ Mentions(ty.t, k)
    \/ ty.k = "result" /\ (Mentions(ty.ok, k) \/ Mentions(ty.err, k))

\* The types the backend names for one function: those of its signature,
\* those the lifts of tagged types and the list instructions name, and the
\* payload types the lowerings of variants and results name.
TypeNamingInsts == {"VariantLift", "ResultLift", "OptionLift", "ListLower", "ListLift"}
NamedTypes(func) ==
    LET prog == CallStream(func)
    IN  NamedBefore(func) \o NamedAfter(func)
        \o Concat([i \in 1..Len(prog) |->
                     IF prog[i].inst \in TypeNamingInsts THEN << prog[i].ty >>
                     ELSE IF prog[i].inst \in {"VariantLower", "ResultLower"}
                     THEN [j \in 1..Len(prog[i].cases) |-> prog[i].cases[j].ty]
                     ELSE <<>>])

\* What one function asks of the module.
Requires(func, helper) ==
    LET prog == CallStream(func)
        tys == NamedTypes(func)
    IN  CASE helper = "Result" -> \E i \in 1..Len(tys) : Mentions(tys[i], "result")
          [] helper = "Option" -> \E i \in 1..Len(tys) : Mentions(tys[i], "option")
          [] helper = "InteropString" ->
                \E i \in 1..Len(prog) : prog[i].inst = "StringLower"
          [] helper = "InteropReturnArea" ->
                func.dir = "Export"
                /\ \E i \in 1..Len(prog) : prog[i].inst = "ReturnPointer"
          [] OTHER ->
                \E i \in 1..Len(prog) :
                    /\ prog[i].inst \in {"HandleLower", "HandleLift"}
                    /\ CSharp_default.resources[prog[i].r] = "Export"

Helpers == {"Result", "Option", "InteropString", "InteropReturnArea", "RepTable"}
Occurrences(stmts, name) == Cardinality({i \in 1..Len(stmts) : stmts[i].name = name})

MaxIfaces == 3

\* Interface names, as the words of their kebab-case spelling.
IfaceNames == { <<"foo">>, <<"bar">>, <<"i", "foo">>, <<"foo", "interop">>,
                <<"foo", "impl">> }

\* to_upper_camel_case: every word with its first letter in upper case.
Capitalized(word) ==
    CASE word = "foo" -> "Foo" [] word = "bar" -> "Bar" [] word = "i" -> "I"
      [] word = "interop" -> "Interop" [] word = "impl" -> "Impl"
      [] OTHER -> "W"
RECURSIVE to_upper_camel_case(_)
to_upper_camel_case(words) ==
    IF words = <<>> THEN ""
    ELSE Capitalized(Head(words)) \o to_upper_camel_case(Tail(words))

\* CSharp::qualifier, for the world named w.
qualifier == to_upper_camel_case(<<"w">>) \o "World."

\* interface_name: the qualified name of an interface of package ns:pkg,
\* kept with its last part apart.
interface_name(name, dir) ==
    [ qualifier |-> qualifier \o "wit."
                    \o (IF dir = "Import" THEN "imports" ELSE "exports")
                    \o "." \o "ns.pkg",
      last |-> "I" \o to_upper_camel_case(name),
      stripped |-> to_upper_camel_case(name) ]

\* The qualified name as the string it is.
Qualified(q) == q.qualifier \o "." \o q.last

\* CSharp::get_class_name_from_qualified_name: the qualifier and the last
\* part.
get_class_name_from_qualified_name(q) == << q.qualifier, q.last >>

\* InterfaceGenerator::add_interface_fragment
add_interface_fragment(fragments, q, is_export) ==
    LET key == Qualified(q)
        fragment == [csharp_src |-> "src " \o key,
                     csharp_interop_src |-> "interop " \o key,
                     stub |-> "stub " \o key]
        entry == IF key \in DOMAIN fragments THEN fragments[key]
                 ELSE [is_export |-> is_export, interface_fragments |-> <<>>, q |-> q]
    IN  (key :> [entry EXCEPT !.interface_fragments = Append(@, fragment)])
        @@ fragments

\* files.push: one more content under a name.
files_push(files, name, contents) ==
    (name :> (IF name \in DOMAIN files THEN files[name] ELSE <<>>) \o << contents >>)
    @@ files

RECURSIVE Joined(_, _)
Joined(fragments, field) ==
    IF fragments = <<>> THEN ""
    ELSE fragments[1][field]
         \o (IF Len(fragments) = 1 THEN "" ELSE "\n")
         \o Joined(Tail(fragments), field)

\* The generate_stub closure of finish; an interface name starts with I,
\* which is stripped.
generate_stub(files, q, fragments) ==
    LET stub_namespace == get_class_name_from_qualified_name(q)[1]
        stub_class_name == q.stripped \o "Impl"
        stub_file_name == IF stub_namespace = "" THEN stub_class_name
                          ELSE stub_namespace \o "." \o stub_class_name
    IN  files_push(files, stub_file_name \o ".cs",
                   "class " \o stub_class_name \o " " \o Joined(fragments, "stub"))

\* finish up to its loop: the world file, the realloc shim, the world stub.
finish_world(opts) ==
    LET name == to_upper_camel_case(<<"w">>)
        f1 == files_push(<<>>, name \o ".cs", "world")
        f2 == files_push(f1, name \o "World_cabi_realloc.c", "realloc")
    IN  IF opts.generate_stub
        THEN generate_stub(f2, [qualifier |-> "", last |-> "I" \o name \o "World",
                                stripped |-> name \o "World"], <<>>)
        ELSE f2

\* The body of the loop of finish over interface_fragments, for one entry.
finish_interface(files, opts, full_name, entry) ==
    LET fragments == entry.interface_fragments
        split == get_class_name_from_qualified_name(entry.q)
        namespace == split[1]
        interface_name_ == split[2]
        class_name == entry.q.stripped
        body == Joined(fragments, "csharp_src")
        f1 == IF body # ""
              THEN files_push(files, full_name \o ".cs",
                              "interface " \o interface_name_ \o " " \o body)
              ELSE files
        f2 == files_push(f1, namespace \o "." \o class_name \o "Interop.cs",
                         "class " \o class_name \o "Interop "
                         \o Joined(fragments, "csharp_interop_src"))
    IN  IF entry.is_export /\ opts.generate_stub
        THEN generate_stub(f2, entry.q, fragments)
        ELSE f2

\* The loop of finish, the map yielding its entries in the given order.
RECURSIVE finish_loop(_, _, _, _)
finish_loop(files, opts, fragments, order) ==
    IF order = <<>> THEN files
    ELSE finish_loop(finish_interface(files, opts, Head(order), fragments[Head(order)]),
                     opts, fragments, Tail(order))

FinStart(opts) == [done |-> FALSE, started |-> FALSE, opts |-> opts,
                   interface_fragments |-> <<>>, visited |-> <<>>, files |-> <<>>]

\* What import_interface and export_interface leave in the map.
Filed(name, dir) ==
    [fin EXCEPT !.interface_fragments =
        add_interface_fragment(@, interface_name(name, dir), dir = "Export")]
CanFile(name, dir) ==
    /\ mode = "files"
    /\ ~fin.started
    /\ Cardinality(DOMAIN fin.interface_fragments) < MaxIfaces
    /\ Qualified(interface_name(name, dir)) \notin DOMAIN fin.interface_fragments

\* WorldGenerator::import_interface, as far as the fragments go.
ImportInterface ==
    /\ \E name \in IfaceNames :
        CanFile(name, "Import") /\ fin' = Filed(name, "Import")
    /\ UNCHANGED <<gen, direction, fb, abi, world_src, mode, requests, fl, hr, asy, aw, mac>>

\* WorldGenerator::export_interface, as far as the fragments go.
ExportInterface ==
    /\ \E name \in IfaceNames :
        CanFile(name, "Export") /\ fin' = Filed(name, "Export")
    /\ UNCHANGED <<gen, direction, fb, abi, world_src, mode, requests, fl, hr, asy, aw, mac>>

\* CSharp::finish up to the loop.
FinishWorld ==
    /\ mode = "files"
    /\ ~fin.started
    /\ fin' = [fin EXCEPT !.started = TRUE, !.files = finish_world(fin.opts),
                          !.done = fin.interface_fragments = <<>>]
    /\ UNCHANGED <<gen, direction, fb, abi, world_src, mode, requests, fl, hr, asy, aw, mac>>

\* One turn of the loop of finish: the map yields an entry not yet visited.
FinishInterface ==
    /\ mode = "files"
    /\ fin.started
    /\ \E full_name \in DOMAIN fin.interface_fragments \ Range(fin.visited) :
        fin' = [fin EXCEPT
                   !.visited = Append(@, full_name),
                   !.files = finish_interface(@, fin.opts, full_name,
                                              fin.interface_fragments[full_name]),
                   !.done = Len(fin.visited) + 1
                            = Cardinality(DOMAIN fin.interface_fragments)]
    /\ UNCHANGED <<gen, direction, fb, abi, world_src, mode, requests, fl, hr, asy, aw, mac>>

InitFiles ==
    /\ gen = CSharp_default
    /\ direction = "Import"
    /\ fb = FunctionBindgen_new("Freestanding", <<>>)
    /\ abi = AbiIdle
    /\ world_src = WorldIdle
    /\ asy = AsyIdle
    /\ requests = {}
    /\ fl = FlagsIdle
    /\ hr = HandleIdle
    /\ aw = AwIdle
    /\ mac = MacIdle
    /\ mode = "files"
    /\ \E generate_stub_ \in BOOLEAN : fin = FinStart([generate_stub |-> generate_stub_])

NextFiles == ImportInterface \/ ExportInterface \/ FinishWorld \/ FinishInterface
SpecFiles == InitFiles /\ [][NextFiles]_vars

(***************************************************************************)
(* C21.  The files written and the order in which the map is walked.       *)
(***************************************************************************)
\* The orders in which a map with the given keys may yield them.
Walks(keys) ==
    {w \in [1..Cardinality(keys) -> keys] :
        \A i, j \in 1..Cardinality(keys) : w[i] = w[j] => i = j}

\* The names of the files written for one entry.
FileNames(opts, full_name, entry) ==
    DOMAIN finish_interface(<<>>, opts, full_name, entry)

\* No two entries write a file of the same name.
DistinctFileNames ==
    \A a, b \in DOMAIN fin.interface_fragments :
        a # b => FileNames(fin.opts, a, fin.interface_fragments[a])
                 \cap FileNames(fin.opts, b, fin.interface_fragments[b]) = {}

\* C21: the files a finished generation has written, names and contents,
\* are those written for every other order in which the map of interface
\* fragments could have yielded its entries.
C21_Deterministic ==
    fin.done =>
        \A w \in Walks(DOMAIN fin.interface_fragments) :
            finish_loop(finish_world(fin.opts), fin.opts,
                        fin.interface_fragments, w) = fin.files

\* The same for the worlds in which no two interfaces write a file of the
\* same name.
C21_DeterministicDistinctNames ==
    fin.done /\ DistinctFileNames =>
        \A w \in Walks(DOMAIN fin.interface_fragments) :
            finish_loop(finish_world(fin.opts), fin.opts,
                        fin.interface_fragments, w) = fin.files

(***************************************************************************)
(* The generate! macro (crates/rust-macro/src/lib.rs): impl Parse for      *)
(* Config takes the fields of the braced option list one after the other.  *)
(***************************************************************************)
MaxFields == 4

None == [k |-> "None"]
Some(v) == [k |-> "Some", v |-> v]

\* enum Opt, with the values the fields here carry.
OptValue(k, v) == [k |-> k, v |-> v]
Opts ==
    {OptValue(k, "a") : k \in {"Path", "Inline", "SubstitutionsPath",
                                "SubstitutionsInline", "World", "MacroCallPrefix",
                                "ExportMacroName"}}
    \cup {OptValue(k, "") : k \in {"UseStdFeature", "RawStrings", "MacroExport"}}
    \cup {OptValue("Skip", l) : l \in {<<"x">>, <<"y", "x">>}}

\* Opts::default() and the locals of Config::parse before the first field.
Opts_default == [std_feature |-> FALSE, raw_strings |-> FALSE, macro_export |-> FALSE,
                 macro_call_prefix |-> None, export_macro_name |-> None,
                 skip |-> <<>>]
ConfigStart == [done |-> FALSE, n |-> 0, last |-> OptValue("", ""),
                err |-> None, opts |-> Opts_default,
                world |-> None, source |-> None, substitutions |-> None,
                seen |-> [source |-> 0, world |-> 0, substitutions |-> 0]]

\* return Err(Error::new(s.span(), msg)): parsing ends at this field.
Fail(cfg, msg) == [cfg EXCEPT !.err = Some([msg |-> msg, at |-> cfg.n + 1])]

\* The match on one Opt without the check of an inline source against one
\* given before.
parse_field_inline_unchecked(cfg, opt) ==
    CASE opt.k = "Path" ->
            IF cfg.source # None THEN Fail(cfg, "cannot specify second source")
            ELSE [cfg EXCEPT !.source = Some([k |-> "Path", s |-> opt.v])]
      [] opt.k = "World" ->
            IF cfg.world # None THEN Fail(cfg, "cannot specify second world")
            ELSE [cfg EXCEPT !.world = Some(opt.v)]
      [] opt.k = "Inline" ->
            [cfg EXCEPT !.source = Some([k |-> "Inline", s |-> opt.v])]
      [] opt.k = "SubstitutionsPath" ->
            IF cfg.substitutions # None
            THEN Fail(cfg, "cannot specify second substitutions")
            ELSE [cfg EXCEPT !.substitutions = Some([k |-> "Path", s |-> opt.v])]
      [] opt.k = "SubstitutionsInline" ->
            IF cfg.substitutions # None
            THEN Fail(cfg, "cannot specify second substitutions")
            ELSE [cfg EXCEPT !.substitutions = Some([k |-> "Inline", s |-> opt.v])]
      [] opt.k = "UseStdFeature" -> [cfg EXCEPT !.opts.std_feature = TRUE]
      [] opt.k = "RawStrings" -> [cfg EXCEPT !.opts.raw_strings = TRUE]
      [] opt.k = "MacroExport" -> [cfg EXCEPT !.opts.macro_export = TRUE]
      [] opt.k = "MacroCallPrefix" -> [cfg EXCEPT !.opts.macro_call_prefix = Some(opt.v)]
      [] opt.k = "ExportMacroName" -> [cfg EXCEPT !.opts.export_macro_name = Some(opt.v)]
      [] OTHER -> [cfg EXCEPT !.opts.skip = @ \o opt.v]

\* The body of the loop over the fields: the match on one Opt.
parse_field(cfg, opt) ==
    CASE opt.k = "Path" ->
            IF cfg.source # None THEN Fail(cfg, "cannot specify second source")
            ELSE [cfg EXCEPT !.source = Some([k |-> "Path", s |-> opt.v])]
      [] opt.k = "World" ->
            IF cfg.world # None THEN Fail(cfg, "cannot specify second world")
            ELSE [cfg EXCEPT !.world = Some(opt.v)]
      [] opt.k = "Inline" ->
            IF cfg.source # None THEN Fail(cfg, "cannot specify second source")
            ELSE [cfg EXCEPT !.source = Some([k |-> "Inline", s |-> opt.v])]
      [] opt.k = "SubstitutionsPath" ->
            IF cfg.substitutions # None
            THEN Fail(cfg, "cannot specify second substitutions")
            ELSE [cfg EXCEPT !.substitutions = Some([k |-> "Path", s |-> opt.v])]
      [] opt.k = "SubstitutionsInline" ->
            IF cfg.substitutions # None
            THEN Fail(cfg, "cannot specify second substitutions")
            ELSE [cfg EXCEPT !.substitutions = Some([k |-> "Inline", s |-> opt.v])]
      [] opt.k = "UseStdFeature" -> [cfg EXCEPT !.opts.std_feature = TRUE]
      [] opt.k = "RawStrings" -> [cfg EXCEPT !.opts.raw_strings = TRUE]
      [] opt.k = "MacroExport" -> [cfg EXCEPT !.opts.macro_export = TRUE]
      [] opt.k = "MacroCallPrefix" -> [cfg EXCEPT !.opts.macro_call_prefix = Some(opt.v)]
      [] opt.k = "ExportMacroName" -> [cfg EXCEPT !.opts.export_macro_name = Some(opt.v)]
      [] OTHER -> [cfg EXCEPT !.opts.skip = @ \o opt.v]

\* The kind of thing a field names, for the count of the fields seen.
Slot(opt) ==
    CASE opt.k \in {"Path", "Inline"} -> "source"
      [] opt.k \in {"SubstitutionsPath", "SubstitutionsInline"} -> "substitutions"
      [] opt.k = "World" -> "world"
      [] OTHER -> "none"

\* One turn of the loop of Config::parse: the next field is taken.
ParseField ==
    /\ mode = "macro"
    /\ ~mac.done
    /\ mac.err = None
    /\ mac.n < MaxFields
    /\ \E opt \in Opts :
        LET cfg == parse_field(mac, opt)
        IN  mac' = [cfg EXCEPT
                       !.n = @ + 1, !.last = opt,
                       !.seen = IF Slot(opt) = "none" THEN @
                                ELSE [@ EXCEPT ![Slot(opt)] = @ + 1]]
    /\ UNCHANGED <<gen, direction, fb, abi, world_src, mode, requests, fl, hr, asy, fin, aw>>

\* The end of the list: the options are accepted as they stand.
EndFields ==
    /\ mode = "macro"
    /\ ~mac.done
    /\ mac.err = None
    /\ mac' = [mac EXCEPT !.done = TRUE]
    /\ UNCHANGED <<gen, direction, fb, abi, world_src, mode, requests, fl, hr, asy, fin, aw>>

InitMacro ==
    /\ gen = CSharp_default
    /\ direction = "Import"
    /\ fb = FunctionBindgen_new("Freestanding", <<>>)
    /\ abi = AbiIdle
    /\ world_src = WorldIdle
    /\ asy = AsyIdle
    /\ requests = {}
    /\ fl = FlagsIdle
    /\ hr = HandleIdle
    /\ fin = FinIdle
    /\ aw = AwIdle
    /\ mode = "macro"
    /\ mac = ConfigStart

NextMacro == ParseField \/ EndFields
SpecMacro == InitMacro /\ [][NextMacro]_vars

(***************************************************************************)
(* C25.  Repeated options of generate!.                                    *)
(***************************************************************************)
SecondMessage(slot) == "cannot specify second " \o slot
Flag(opt) == CASE opt.k = "UseStdFeature" -> "std_feature"
               [] opt.k = "RawStrings" -> "raw_strings"
               [] OTHER -> "macro_export"

\* C25: a field that names a second source, a second world or a second
\* substitutions ends the parsing at that field with the matching error and
\* every other field is taken; so accepted options have seen at most one of
\* each, a skip list is added to those before, and a flag given again
\* leaves the options as they were.
C25_SecondOptionRejected ==
    /\ [](mac.done => /\ mac.err = None
                      /\ mac.seen.source <= 1
                      /\ mac.seen.world <= 1
                      /\ mac.seen.substitutions <= 1)
    /\ [][ mac'.n = mac.n + 1 =>
            LET opt == mac'.last
                slot == Slot(opt)
            IN  /\ slot # "none" /\ mac.seen[slot] >= 1 =>
                    /\ mac'.err = Some([msg |-> SecondMessage(slot), at |-> mac'.n])
                    /\ mac'.opts = mac.opts
                    /\ <<mac'.source, mac'.world, mac'.substitutions>>
                         = <<mac.source, mac.world, mac.substitutions>>
                /\ ~(slot # "none" /\ mac.seen[slot] >= 1) => mac'.err = None
                /\ slot # "none" /\ mac.seen[slot] = 0 => mac'[slot] # None
                /\ opt.k = "Skip" =>
                    /\ mac'.opts.skip = mac.opts.skip \o opt.v
                    /\ mac'.opts = [mac.opts EXCEPT !.skip = mac'.opts.skip]
                /\ opt.k \in {"UseStdFeature", "RawStrings", "MacroExport"} =>
                    /\ mac'.opts[Flag(opt)]
                    /\ mac.opts[Flag(opt)] => mac'.opts = mac.opts ]_vars

\* Parsing has just failed at an inline source that came after a path, two
\* skip lists and a repeated flag having been taken before.
C25_Witness ==
    /\ mac.err = Some([msg |-> "cannot specify second source", at |-> mac.n])
    /\ mac.last.k = "Inline"
    /\ mac.source = Some([k |-> "Path", s |-> "a"])
    /\ mac.opts.skip = <<"x", "y", "x">>

\* Accepted options with a flag given twice.
C25_WitnessAccepted ==
    /\ mac.done
    /\ mac.n = 3
    /\ mac.seen.world = 1
    /\ mac.opts.raw_strings
    /\ mac.opts.skip = <<>>
    /\ mac.opts.macro_call_prefix = None /\ mac.opts.export_macro_name = None
    /\ ~mac.opts.std_feature /\ ~mac.opts.macro_export

(***************************************************************************)
(* asyncify of a world (crates/core/src/asyncify.rs): every item of the    *)
(* old world is handed to asyncify_world_item, once in the pass that       *)
(* builds the imports and once in the pass that builds the exports.        *)
(***************************************************************************)
MaxItems == 2

WorldKey_Name(name) == [k |-> "Name", name |-> name, id |-> 0]
WorldKey_Interface(id) == [k |-> "Interface", name |-> "", id |-> id]

NoFunction == [name |-> "", kind |-> "", params |-> <<>>, results |-> Named(<<>>)]
WorldItem_Interface(id) == [k |-> "Interface", id |-> id, f |-> NoFunction]
WorldItem_Function(f) == [k |-> "Function", id |-> 0, f |-> f]
WorldItem_Type(id) == [k |-> "Type", id |-> id, f |-> NoFunction]

Function(name, results) ==
    [name |-> name, kind |-> "Freestanding", params |-> << <<"x", S32>> >>,
     results |-> results]

\* The interfaces of the old resolve, by id.
OldInterfaces ==
    << [name |-> "i1", functions |-> << Function("g", Anon(S32)) >>],
       [name |-> "i2", functions |-> << Function("h", Anon(Str)),
                                        Function("k", Anon(S32)) >>] >>

\* The interface of the isyswasfa package pushed on the new resolve, and the
\* poll function of the new world.
isyswasfa_interface == Len(OldInterfaces) + 1
poll_function_name == "isyswasfa-poll-" \o "x"
poll_function ==
    [name |-> poll_function_name, kind |-> "Freestanding",
     params |-> << <<"input", ListT([k |-> "poll-input"])>> >>,
     results |-> Anon(ListT([k |-> "poll-output"]))]

\* An IndexMap as the sequence of its entries; insert replaces the value of
\* a key already there, where it is.
Entry(key, value) == [key |-> key, value |-> value]
IndexMap_insert(m, key, value) ==
    IF \E i \in 1..Len(m) : m[i].key = key
    THEN [i \in 1..Len(m) |-> IF m[i].key = key THEN Entry(key, value) ELSE m[i]]
    ELSE Append(m, Entry(key, value))
RECURSIVE collect(_, _)
collect(m, entries) ==
    IF entries = <<>> THEN m
    ELSE collect(IndexMap_insert(m, Head(entries).key, Head(entries).value),
                 Tail(entries))

\* What the items of a world may be.
WorldItems ==
    { Entry(WorldKey_Name("f"), WorldItem_Function(Function("f", Anon(S32)))),
      Entry(WorldKey_Name("p"), WorldItem_Function(Function("p", Named(<<>>)))),
      Entry(WorldKey_Interface(1), WorldItem_Interface(1)),
      Entry(WorldKey_Name("n"), WorldItem_Interface(2)),
      Entry(WorldKey_Name("t"), WorldItem_Type(1)) }

\* The imports or exports of a world: items under distinct keys.
ItemLists ==
    UNION { {l \in [1..n -> WorldItems] :
                \A i, j \in 1..n : l[i].key = l[j].key => i = j} : n \in 0..MaxItems }

\* struct Asyncify, after asyncify has set it up.
Asyncify_new ==
    [ interfaces_arena |-> Append(OldInterfaces, [name |-> "isyswasfa", functions |-> <<>>]),
      interfaces |-> <<>>,
      functions |-> <<>>,
      made |-> <<>> ]

\* new_resolve.interfaces.alloc of asyncify_interface: the new interface
\* holds the functions of the pairs, each filed under its own name.
Interface_alloc(a, old, interface, pairs) ==
    [ a |-> [a EXCEPT
                !.interfaces_arena =
                    Append(@, [name |-> old.name \o "-isyswasfa",
                               functions |->
                                 collect(<<>>,
                                    Concat([i \in 1..Len(pairs) |->
                                        [j \in 1..Len(pairs[i].new) |->
                                            Entry(pairs[i].new[j].name,
                                                  pairs[i].new[j])]]))]),
                !.made = Append(@, WorldItem_Interface(interface))],
      id |-> Len(a.interfaces_arena) + 1,
      panic |-> \E i \in 1..Len(pairs) : pairs[i].panic ]

\* Asyncify::asyncify_interface: a new interface with the pair of every
\* function of the old one.
asyncify_interface(a, interface) ==
    Interface_alloc(a, OldInterfaces[interface], interface,
        [i \in 1..Len(OldInterfaces[interface].functions) |->
            asyncify_function(OldInterfaces[interface].functions[i])])

Lookup(m, key) == (CHOOSE i \in 1..Len(m) : m[i].key = key)
Has(m, key) == \E i \in 1..Len(m) : m[i].key = key

\* self.interfaces.insert(*old, new)
Inserted(old, r) ==
    [a |-> [r.a EXCEPT !.interfaces = IndexMap_insert(@, old, r.id)],
     id |-> r.id, panic |-> r.panic]

\* The lookup both branches of asyncify_world_item make for an interface:
\* the id filed for it, or a new interface, filed.
new_interface(a, old) ==
    IF Has(a.interfaces, old)
    THEN [a |-> a, id |-> a.interfaces[Lookup(a.interfaces, old)].value,
          panic |-> FALSE]
    ELSE Inserted(old, asyncify_interface(a, old))

\* The closure new_key of asyncify_world_item.
Keyed(r) == [a |-> r.a, key |-> WorldKey_Interface(r.id), panic |-> r.panic]
new_key(a, key) ==
    IF key.k = "Name" THEN [a |-> a, key |-> key, panic |-> FALSE]
    ELSE Keyed(new_interface(a, key.id))

\* The two items that replace a function of the world.
Duplicates(a, key, new, panic) ==
    [a |-> a, panic |-> panic,
     out |-> IF panic THEN <<>>
             ELSE << Entry(WorldKey_Name(key.name \o "-isyswasfa"),
                           WorldItem_Function(new[1])),
                     Entry(WorldKey_Name(key.name \o "-isyswasfa-result"),
                           WorldItem_Function(new[2])) >>]

\* self.functions.insert(key.clone(), new.clone())
Remembered(a, key, item, r) ==
    Duplicates(IF r.panic THEN a
               ELSE [a EXCEPT !.functions = IndexMap_insert(@, key, r.new),
                              !.made = Append(@, item)],
               key, r.new, r.panic)

\* The item under its new key.
Item_Interface(k, r) ==
    [a |-> r.a, panic |-> k.panic \/ r.panic,
     out |-> << Entry(k.key, WorldItem_Interface(r.id)) >>]
Item_Type(k, item) ==
    [a |-> k.a, panic |-> k.panic, out |-> << Entry(k.key, WorldItem_Type(item.id)) >>]

\* Asyncify::asyncify_world_item.  The key of an interface or a type is
\* made before the item is; the key of a function is made from its name, and
\* a function under an interface key is unreachable!().
asyncify_world_item(a, key, item) ==
    CASE item.k = "Interface" ->
            Item_Interface(new_key(a, key), new_interface(new_key(a, key).a, item.id))
      [] item.k = "Function" ->
            IF key.k = "Interface" THEN Duplicates(a, key, <<>>, TRUE)
            ELSE IF Has(a.functions, key)
            THEN Duplicates(a, key, a.functions[Lookup(a.functions, key)].value, FALSE)
            ELSE Remembered(a, key, item, asyncify_function(item.f))
      [] OTHER -> Item_Type(new_key(a, key), item)

AwStart(imports, exports) ==
    [ done |-> FALSE, panic |-> FALSE,
      old |-> [imports |-> imports, exports |-> exports],
      a |-> Asyncify_new,
      pass |-> "imports", i |-> 1, at |-> Entry(WorldKey_Name(""), WorldItem_Type(0)),
      out |-> <<>>, imports |-> <<>>, exports |-> <<>> ]

\* One item of a pass handed to asyncify_world_item; a panic ends the
\* transform.
Taken(r, item) ==
    IF r.panic THEN [aw EXCEPT !.panic = TRUE, !.at = item]
    ELSE [aw EXCEPT !.a = r.a, !.out = @ \o r.out, !.i = @ + 1, !.at = item]
Handed(items) ==
    Taken(asyncify_world_item(aw.a, items[aw.i].key, items[aw.i].value), items[aw.i])

\* asyncify, the pass that builds the imports: the next item of the old
\* world's imports.
AsyncifyImport ==
    /\ mode = "asyncify"
    /\ ~aw.done /\ ~aw.panic
    /\ aw.pass = "imports"
    /\ aw.i <= Len(aw.old.imports)
    /\ aw' = Handed(aw.old.imports)
    /\ UNCHANGED <<gen, direction, fb, abi, world_src, mode, requests, fl, hr, asy, fin, mac>>

\* The end of that pass: the isyswasfa interface is chained and the new
\* imports are collected.
CollectImports ==
    /\ mode = "asyncify"
    /\ ~aw.done /\ ~aw.panic
    /\ aw.pass = "imports"
    /\ aw.i > Len(aw.old.imports)
    /\ aw' = [aw EXCEPT
                !.imports = collect(<<>>,
                    Append(aw.out, Entry(WorldKey_Interface(isyswasfa_interface),
                                         WorldItem_Interface(isyswasfa_interface)))),
                !.out = <<>>, !.pass = "exports", !.i = 1]
    /\ UNCHANGED <<gen, direction, fb, abi, world_src, mode, requests, fl, hr, asy, fin, mac>>

\* asyncify, the pass that builds the exports: it walks old_world.imports
\* as the first pass does.
AsyncifyExport ==
    /\ mode = "asyncify"
    /\ ~aw.done /\ ~aw.panic
    /\ aw.pass = "exports"
    /\ aw.i <= Len(aw.old.imports)
    /\ aw' = Handed(aw.old.imports)
    /\ UNCHANGED <<gen, direction, fb, abi, world_src, mode, requests, fl, hr, asy, fin, mac>>

\* The end of that pass: the poll function is chained, the new exports are
\* collected, and the new world has its imports and exports.
CollectExports ==
    /\ mode = "asyncify"
    /\ ~aw.done /\ ~aw.panic
    /\ aw.pass = "exports"
    /\ aw.i > Len(aw.old.imports)
    /\ aw' = [aw EXCEPT
                !.exports = collect(<<>>,
                    Append(aw.out, Entry(WorldKey_Name(poll_function_name),
                                         WorldItem_Function(poll_function)))),
                !.out = <<>>, !.done = TRUE]
    /\ UNCHANGED <<gen, direction, fb, abi, world_src, mode, requests, fl, hr, asy, fin, mac>>

InitAsyncify ==
    /\ gen = CSharp_default
    /\ direction = "Import"
    /\ fb = FunctionBindgen_new("Freestanding", <<>>)
    /\ abi = AbiIdle
    /\ world_src = WorldIdle
    /\ asy = AsyIdle
    /\ requests = {}
    /\ fl = FlagsIdle
    /\ hr = HandleIdle
    /\ fin = FinIdle
    /\ mac = MacIdle
    /\ mode = "asyncify"
    /\ \E imports \in ItemLists, exports \in ItemLists : aw = AwStart(imports, exports)

NextAsyncify == AsyncifyImport \/ CollectImports \/ AsyncifyExport \/ CollectExports
SpecAsyncify == InitAsyncify /\ [][NextAsyncify]_vars

(***************************************************************************)
(* C23.  The pair that replaces a function.                                *)
(***************************************************************************)
\* The step in which an item of the old world is handed to
\* asyncify_world_item, and what that call added to the pass.
HandsItem == mode = "asyncify" /\ ~aw.done /\ ~aw.panic
             /\ (aw'.i = aw.i + 1 \/ aw'.panic)
NewItems == SubSeq(aw'.out, Len(aw.out) + 1, Len(aw'.out))

\* a and b are the submit and the retrieve function of f.
IsPair(f, a, b) ==
    /\ f.results.k = "anon"
    /\ a.kind = f.kind /\ a.params = f.params
    /\ a.results = Anon(ResultT(f.results.ty, PendingT))
    /\ b.kind = f.kind
    /\ Len(b.params) = 1 /\ b.params[1][2] = ReadyT
    /\ b.results = f.results

\* The interface made for the old interface id holds, for every function
\* of the old one and in its order, its pair.
InterfacePairs(id) ==
    LET old == OldInterfaces[id].functions
        new == aw'.a.interfaces_arena[
                  aw'.a.interfaces[Lookup(aw'.a.interfaces, id)].value].functions
    IN  /\ Len(new) = 2 * Len(old)
        /\ \A i \in 1..Len(old) :
              IsPair(old[i], new[2 * i - 1].value, new[2 * i].value)

\* C23: every function of the world, free or inside an interface, is
\* replaced by exactly two functions, the submit function and then the
\* retrieve function; none is dropped.
C23_EveryFunctionDuplicated ==
    [][ HandsItem =>
          LET item == aw'.at.value
          IN  /\ item.k = "Function" =>
                    /\ ~aw'.panic
                    /\ Len(NewItems) = 2
                    /\ \A i \in 1..2 : NewItems[i].value.k = "Function"
                    /\ IsPair(item.f, NewItems[1].value.f, NewItems[2].value.f)
              /\ item.k = "Interface" =>
                    /\ ~aw'.panic
                    /\ Len(NewItems) = 1
                    /\ InterfacePairs(item.id) ]_vars

\* The same for the functions with an anonymous result only.
C23_AnonymousDuplicated ==
    [][ HandsItem =>
          LET item == aw'.at.value
          IN  /\ item.k = "Function" /\ item.f.results.k = "anon" =>
                    /\ ~aw'.panic
                    /\ Len(NewItems) = 2
                    /\ \A i \in 1..2 : NewItems[i].value.k = "Function"
                    /\ IsPair(item.f, NewItems[1].value.f, NewItems[2].value.f)
              /\ item.k = "Interface" =>
                    /\ ~aw'.panic
                    /\ Len(NewItems) = 1
                    /\ InterfacePairs(item.id) ]_vars

(***************************************************************************)
(* C24.  The imports and the exports of the new world.                     *)
(***************************************************************************)
\* The asyncified counterpart of an entry of the old world is among the
\* entries m of the new one.
Present(e, m) ==
    CASE e.value.k = "Function" ->
            /\ Has(m, WorldKey_Name(e.key.name \o "-isyswasfa"))
            /\ Has(m, WorldKey_Name(e.key.name \o "-isyswasfa-result"))
      [] e.key.k = "Name" -> Has(m, e.key)
      [] OTHER ->
            /\ Has(aw.a.interfaces, e.key.id)
            /\ Has(m, WorldKey_Interface(
                        aw.a.interfaces[Lookup(aw.a.interfaces, e.key.id)].value))

\* C24: the new world imports the counterpart of every import of the old
\* world and the isyswasfa interface, and exports the counterpart of every
\* export of the old world and the poll function; no export is missing, and
\* no import that is not also an export is exported.
C24_ImportsAndExports ==
    aw.done =>
        /\ \A i \in 1..Len(aw.old.imports) : Present(aw.old.imports[i], aw.imports)
        /\ Has(aw.imports, WorldKey_Interface(isyswasfa_interface))
        /\ Len(aw.imports) = Len(aw.old.imports) + 1
             + Cardinality({i \in 1..Len(aw.old.imports) :
                               aw.old.imports[i].value.k = "Function"})
        /\ \A i \in 1..Len(aw.old.exports) : Present(aw.old.exports[i], aw.exports)
        /\ Has(aw.exports, WorldKey_Name(poll_function_name))
        /\ \A i \in 1..Len(aw.old.imports) :
              aw.old.imports[i] \notin Range(aw.old.exports)
              => ~Present(aw.old.imports[i], aw.exports)

\* The half of it that is about the imports.
C24_Imports ==
    aw.done =>
        /\ \A i \in 1..Len(aw.old.imports) : Present(aw.old.imports[i], aw.imports)
        /\ Has(aw.imports, WorldKey_Interface(isyswasfa_interface))
        /\ Len(aw.imports) = Len(aw.old.imports) + 1
             + Cardinality({i \in 1..Len(aw.old.imports) :
                               aw.old.imports[i].value.k = "Function"})
        /\ Has(aw.exports, WorldKey_Name(poll_function_name))

(***************************************************************************)
(* C30.  Names and sharing in the new world.                               *)
(***************************************************************************)
\* C30: each of the two items that replace a function of the world is filed
\* under the name of its function, as the functions of a new interface are;
\* and an interface or function of the old world handed over again is not
\* asyncified again but yields the interface or pair made the first time.
C30_NamesAndSharing ==
    /\ [][ HandsItem /\ ~aw'.panic =>
            /\ aw'.at.value.k = "Function" =>
                \A i \in 1..Len(NewItems) :
                    NewItems[i].key = WorldKey_Name(NewItems[i].value.f.name)
            /\ aw'.at.value.k = "Interface" =>
                LET new == aw'.a.interfaces_arena[NewItems[1].value.id].functions
                IN  \A i \in 1..Len(new) : new[i].key = new[i].value.name ]_vars
    /\ [](\A i, j \in 1..Len(aw.a.made) : aw.a.made[i] = aw.a.made[j] => i = j)
    /\ [](aw.done =>
            \A i \in 1..Len(aw.imports), j \in 1..Len(aw.exports) :
                aw.imports[i].key = aw.exports[j].key
                => aw.imports[i].value = aw.exports[j].value)

\* The half of it that is about sharing, and the names inside interfaces.
C30_Sharing ==
    /\ [][ HandsItem /\ ~aw'.panic =>
            /\ aw'.at.value.k = "Interface" =>
                LET new == aw'.a.interfaces_arena[NewItems[1].value.id].functions
                IN  \A i \in 1..Len(new) : new[i].key = new[i].value.name ]_vars
    /\ [](\A i, j \in 1..Len(aw.a.made) : aw.a.made[i] = aw.a.made[j] => i = j)
    /\ [](aw.done =>
            \A i \in 1..Len(aw.imports), j \in 1..Len(aw.exports) :
                aw.imports[i].key = aw.exports[j].key
                => aw.imports[i].value = aw.exports[j].value)

====
